---- MODULE Spec2Model ----
(***************************************************************************)
(* The game-state transition engine of r/populace (src/src/simulation.ts)  *)
(* as a state machine.  `state` is the GameState object a session holds,   *)
(* `store` is the value last written to the 'gameState' key, `now` is the  *)
(* reading of Date.now() and `last` records the last call and how it       *)
(* ended.  Every exported function of simulation.ts is an operator that    *)
(* maps (state, inputs) to the object as the call leaves it together with  *)
(* the error it threw, if any; the actions apply these operators.          *)
(* `budget` is the number of calls the run may still accept and           *)
(* `lastOrderAt` keeps the time of the last accepted executive order; the  *)
(* code has neither.  `job` is the run of the scheduled event between its  *)
(* read of the 'gameState' key and its write: empty when no run is under   *)
(* way, and otherwise holding the state the run has read.  `auditLogs` is  *)
(* the list under the 'auditLogs' key, the newest entry first.             *)
(*                                                                         *)
(* Time is counted in seconds (Date.now() counts milliseconds): every      *)
(* window of the code is a whole number of seconds.                        *)
(***************************************************************************)
EXTENDS Integers, Sequences, FiniteSets, TLC

VARIABLES state, store, now, last, budget, lastOrderAt, job, auditLogs

vars == <<state, store, now, last, budget, lastOrderAt, job, auditLogs>>

----------------------------------------------------------------------------
(* Bounds of the model.                                                    *)

\* Calls accepted in one run of the full engine specification.
MaxCalls == 2
\* Calls accepted in one run of the legislature specification.
MaxLawCalls == 6
\* Calls accepted in one run of the impeachment specification.
MaxImpeachCalls == 5
\* Calls accepted in one run of the election specification.
MaxElectionCalls == 3
\* Calls accepted in one run of the concurrent specification.
MaxConcurrentCalls == 3
\* Calls accepted in one run of the citizen-action specification.
MaxCitizenCalls == 3
\* Calls accepted in one run of the senate-election specification.
MaxSenateCalls == 3
\* Calls accepted in one run of the random-event specification.
MaxEventCalls == 3
\* Calls accepted in one run of the executive-order specification.
MaxOrderCalls == 4
\* Largest senate the legislature and impeachment specifications seat.
SenateMax == 5

UserNames == <<"ann", "bob", "cat", "dan", "eve", "fay", "gus", "hal">>
\* The player accounts of the full engine specification.
Users == {"ann", "bob"}
Null == "<null>"

----------------------------------------------------------------------------
(* Helpers for JavaScript objects used as maps.                            *)

Has(f, k) == k \in DOMAIN f
Put(f, k, v) == [x \in (DOMAIN f) \cup {k} |-> IF x = k THEN v ELSE f[x]]
Max(a, b) == IF a >= b THEN a ELSE b
Min(a, b) == IF a <= b THEN a ELSE b

Ok(st) == [state |-> st, error |-> "none"]
Err(st, kind) == [state |-> st, error |-> kind]

StatKeys == {"military", "economy", "healthcare", "welfare", "education", "technology"}

\* Date.now() at the start of a run: any reading of a real clock is far
\* more than 30 days after the epoch.
StartTime == 20000 * 24 * 3600

cooldown == 5 * 60
oneWeek == 7 * 24 * 3600
twoWeeks == 14 * 24 * 3600
oneMonth == 30 * 24 * 3600

----------------------------------------------------------------------------
(* getDefaultState                                                         *)

getDefaultState ==
  [ version |-> 0,
    statistics |-> [k \in StatKeys |-> 100],
    eventHistory |-> <<>>,
    lawHistory |-> <<>>,
    laws |-> <<>>,
    polls |-> [senatorVotes |-> <<>>, presidentVotes |-> <<>>, impeachmentVotes |-> <<>>],
    citizenActions |-> [protestPercentage |-> 0, coupPercentage |-> 0],
    positionsOfPower |-> [senators |-> <<>>, president |-> Null],
    votingRecords |-> [senator |-> <<>>, president |-> <<>>],
    lastActionTimes |-> <<>>,
    lastExecutiveOrderTime |-> 0 ]

----------------------------------------------------------------------------
(* simulateEvent                                                           *)

\* tier.toUpperCase()
toUpperCase(tier) ==
  CASE tier = "minor" -> "MINOR"
    [] tier = "major" -> "MAJOR"
    [] tier = "crisis" -> "CRISIS"

FallbackEvent ==
  [ description |-> "A quiet week passes with no significant events.",
    effects |-> [k \in StatKeys |-> 0] ]

CollapseNotice == "Country collapsed! Restarting simulation."

\* What the text-generation service does on one call: it answers with a
\* well-formed payload, with text that JSON.parse rejects, or the call
\* throws (no API key, no connection, an answer without choices).
fetchEventFromOpenAI(oracle) ==
  CASE oracle.kind = "payload" ->
         [error |-> "none", event |-> [description |-> oracle.description, effects |-> oracle.effects]]
    [] oracle.kind = "unparseable" -> [error |-> "none", event |-> FallbackEvent]
    [] oracle.kind \in {"unreachable", "no_choices", "no_api_key"} ->
         [error |-> "OracleError", event |-> FallbackEvent]

approvedLaws(st) == SelectSeq(st.laws, LAMBDA law : law.status = "approved")

\* event.effects[key] * modifier, with modifier 1 + 0.2 * relevantCount for
\* a negative effect and 1 + 0.1 * relevantCount for a positive one.  The
\* effects of the model are multiples of 10, so the quotient is exact.
adjustedEffect(effect, relevantCount) ==
  IF relevantCount > 0 /\ effect < 0 THEN (effect * (10 + 2 * relevantCount)) \div 10
  ELSE IF relevantCount > 0 /\ effect > 0 THEN (effect * (10 + relevantCount)) \div 10
  ELSE effect

\* The statistic is stored without Math.max.
Unclamped(x) == x

\* Math.max(x, 0)
clampAtZero(x) == Max(x, 0)

RECURSIVE SumOver(_, _)
SumOver(f, keys) ==
  IF keys = {} THEN 0
  ELSE LET k == CHOOSE x \in keys : TRUE IN f[k] + SumOver(f, keys \ {k})

\* The collapse is triggered by any one statistic at 0.
anyStatisticZero(statistics) == \E k \in DOMAIN statistics : statistics[k] = 0

\* overall === 0, overall being the sum of the statistics divided by their number
overallIsZero(statistics) == SumOver(statistics, DOMAIN statistics) = 0

\* relevant[key] is the number of approved laws the relevance oracle
\* answers YES for.
simulateEvent(st, tier, oracle, relevant) ==
  LET fetched == fetchEventFromOpenAI(oracle)
      event == [fetched.event EXCEPT
                  !.description = "[" \o toUpperCase(tier) \o "] " \o fetched.event.description]
      stats == [k \in StatKeys |->
                  IF Has(event.effects, k)
                  THEN clampAtZero(st.statistics[k] + adjustedEffect(event.effects[k], relevant[k]))
                  ELSE st.statistics[k]]
      applied == [st EXCEPT !.statistics = stats,
                            !.eventHistory = Append(st.eventHistory, event.description)]
      kept == IF overallIsZero(applied.statistics)
              THEN [getDefaultState EXCEPT !.eventHistory = <<CollapseNotice>>]
              ELSE applied
  IN IF fetched.error # "none" THEN Err(st, fetched.error)
     ELSE Ok([kept EXCEPT !.version = kept.version + 1])

----------------------------------------------------------------------------
(* Legislative transitions                                                 *)

Range(seq) == {seq[i] : i \in 1..Len(seq)}

\* Whoever has a senator tally may vote, seated or not.
hasSenatorTally(st, voter) ==
  \E i \in 1..Len(st.polls.senatorVotes) : st.polls.senatorVotes[i].name = voter

\* state.positionsOfPower.senators.includes(voter)
isSenator(st, voter) == voter \in Range(st.positionsOfPower.senators)

\* state.laws.find(l => l.id === lawId): the index of the first law with
\* that id, 0 when there is none
findLaw(laws, lawId) ==
  IF \E i \in 1..Len(laws) : laws[i].id = lawId
  THEN CHOOSE i \in 1..Len(laws) :
         laws[i].id = lawId /\ \A j \in 1..(i - 1) : laws[j].id # lawId
  ELSE 0

\* The new law is put in front of the others.
draftLawInFront(st, clock, lawText) ==
  LET newLaw == [id |-> clock, text |-> lawText, votesFor |-> 0, votesAgainst |-> 0,
                 status |-> "pending", createdAt |-> clock, votes |-> <<>>]
  IN Ok([st EXCEPT !.laws = <<newLaw>> \o st.laws, !.version = st.version + 1])

draftLaw(st, clock, lawText) ==
  LET newLaw == [id |-> clock, text |-> lawText, votesFor |-> 0, votesAgainst |-> 0,
                 status |-> "pending", createdAt |-> clock, votes |-> <<>>]
  IN Ok([st EXCEPT !.laws = Append(st.laws, newLaw), !.version = st.version + 1])

\* The comparison is strict: law.votesFor > (2 / 3) * totalSenators.
senateMajorityStrict(votesFor, totalSenators) == 3 * votesFor > 2 * totalSenators

\* law.votesFor >= (2 / 3) * totalSenators
senateMajority(votesFor, totalSenators) == 3 * votesFor >= 2 * totalSenators

\* The ledger is tested for a truthy entry: if (law.votes[voter]).
alreadyVotedYes(votes, voter) == Has(votes, voter) /\ votes[voter]

\* law.votes[voter] !== undefined
alreadyVoted(votes, voter) == Has(votes, voter)

\* Every ballot is counted as one for the law.
voteOnLawCountedFor(st, voter, lawId, vote) ==
  LET i == findLaw(st.laws, lawId)
      law == st.laws[i]
      cast == [law EXCEPT !.votes = Put(law.votes, voter, vote),
                          !.votesFor = law.votesFor + 1]
      totalSenators == Len(st.positionsOfPower.senators)
      voted == IF senateMajority(cast.votesFor, totalSenators)
               THEN [cast EXCEPT !.status = "awaiting_president"]
               ELSE cast
  IN IF ~isSenator(st, voter) THEN Err(st, "PermissionError")
     ELSE IF i = 0 THEN Err(st, "NotFoundError")
     ELSE IF alreadyVoted(law.votes, voter) THEN Err(st, "DuplicateVoteError")
     ELSE Ok([st EXCEPT !.laws[i] = voted, !.version = st.version + 1])

voteOnLaw(st, voter, lawId, vote) ==
  LET i == findLaw(st.laws, lawId)
      law == st.laws[i]
      cast == [law EXCEPT !.votes = Put(law.votes, voter, vote),
                          !.votesFor = IF vote THEN law.votesFor + 1 ELSE law.votesFor,
                          !.votesAgainst = IF vote THEN law.votesAgainst ELSE law.votesAgainst + 1]
      totalSenators == Len(st.positionsOfPower.senators)
      voted == IF senateMajority(cast.votesFor, totalSenators)
               THEN [cast EXCEPT !.status = "awaiting_president"]
               ELSE cast
  IN IF ~isSenator(st, voter) THEN Err(st, "PermissionError")
     ELSE IF i = 0 THEN Err(st, "NotFoundError")
     ELSE IF alreadyVoted(law.votes, voter) THEN Err(st, "DuplicateVoteError")
     ELSE Ok([st EXCEPT !.laws[i] = voted, !.version = st.version + 1])

\* The decision is refused for decided laws only.
lawDecided(law) == law.status \in {"passed", "vetoed"}

\* law.status !== "awaiting_president"
notAwaitingPresident(law) == law.status # "awaiting_president"

\* passLawByPresident and vetoLawByPresident differ in the status they set
\* and in the line they append to lawHistory.
presidentDecides(st, voter, lawId, status, line) ==
  LET i == findLaw(st.laws, lawId)
      law == st.laws[i]
  IN IF voter # st.positionsOfPower.president THEN Err(st, "PermissionError")
     ELSE IF i = 0 THEN Err(st, "NotFoundError")
     ELSE IF notAwaitingPresident(law) THEN Err(st, "StateError")
     ELSE Ok([st EXCEPT !.laws[i].status = status,
                        !.lawHistory = Append(st.lawHistory, "Law \"" \o law.text \o line),
                        !.version = st.version + 1])

passLawByPresident(st, voter, lawId) ==
  presidentDecides(st, voter, lawId, "passed", "\" passed by president.")

vetoLawByPresident(st, voter, lawId) ==
  presidentDecides(st, voter, lawId, "vetoed", "\" vetoed by president.")

\* The moderator's override (moderation): the law is approved whatever its
\* status.
approveLaw(st, lawId) ==
  LET i == findLaw(st.laws, lawId)
  IN IF i = 0 THEN Err(st, "NotFoundError")
     ELSE Ok([st EXCEPT !.laws[i].status = "approved", !.version = st.version + 1])

\* redis.lpush("auditLogs", JSON.stringify({timestamp, action, details}))
auditLog(logs, clock, action, details) ==
  <<[timestamp |-> clock, action |-> action, details |-> details]>> \o logs

\* for (const key in adjustments)
\*   if (state.statistics.hasOwnProperty(key)) state.statistics[key] = adjustments[key]
adjustGameState(st, adjustments) ==
  Ok([st EXCEPT
        !.statistics = [k \in StatKeys |->
                          IF k \in DOMAIN adjustments THEN adjustments[k]
                          ELSE st.statistics[k]],
        !.version = st.version + 1])

\* delete state.votingRecords.senator[voter], .president[voter] and
\* state.lastActionTimes[voter]
Delete(f, k) == [x \in (DOMAIN f) \ {k} |-> f[x]]

\* The timers of every voter are cleared.
manageDisruptiveBehaviorOfAll(st, voter) ==
  Ok([st EXCEPT
        !.votingRecords.senator = <<>>,
        !.votingRecords.president = <<>>,
        !.lastActionTimes = <<>>,
        !.version = st.version + 1])

manageDisruptiveBehavior(st, voter) ==
  Ok([st EXCEPT
        !.votingRecords.senator = Delete(st.votingRecords.senator, voter),
        !.votingRecords.president = Delete(st.votingRecords.president, voter),
        !.lastActionTimes = Delete(st.lastActionTimes, voter),
        !.version = st.version + 1])

\* The window is closed one second longer: now - last <= oneWeek.
orderTooSoonInclusive(clock, lastExecutiveOrderTime) == clock - lastExecutiveOrderTime <= oneWeek

\* now - (state.lastExecutiveOrderTime || 0) < oneWeek
orderTooSoon(clock, lastExecutiveOrderTime) == clock - lastExecutiveOrderTime < oneWeek

\* The caller is not checked against the president.
executiveOrderByAnyone(st, clock, voter, order) ==
  LET stats == [k \in StatKeys |->
                  IF Has(order.effects, k)
                  THEN clampAtZero(st.statistics[k] + order.effects[k])
                  ELSE st.statistics[k]]
  IN IF orderTooSoon(clock, st.lastExecutiveOrderTime) THEN Err(st, "RateLimitError")
     ELSE Ok([st EXCEPT !.statistics = stats,
                        !.eventHistory = Append(st.eventHistory, "[EXECUTIVE ORDER] " \o order.description),
                        !.lastExecutiveOrderTime = clock,
                        !.version = st.version + 1])

executiveOrder(st, clock, voter, order) ==
  LET stats == [k \in StatKeys |->
                  IF Has(order.effects, k)
                  THEN clampAtZero(st.statistics[k] + order.effects[k])
                  ELSE st.statistics[k]]
  IN IF voter # st.positionsOfPower.president THEN Err(st, "PermissionError")
     ELSE IF orderTooSoon(clock, st.lastExecutiveOrderTime) THEN Err(st, "RateLimitError")
     ELSE Ok([st EXCEPT !.statistics = stats,
                        !.eventHistory = Append(st.eventHistory, "[EXECUTIVE ORDER] " \o order.description),
                        !.lastExecutiveOrderTime = clock,
                        !.version = st.version + 1])

----------------------------------------------------------------------------
(* Electoral transitions.  polls.senatorVotes is kept as the sequence of   *)
(* its entries in insertion order, which Object.entries returns.           *)

\* state.polls.senatorVotes[candidate], 0 when the key is absent
tallyOf(entries, candidate) ==
  IF \E i \in 1..Len(entries) : entries[i].name = candidate
  THEN (CHOOSE e \in Range(entries) : e.name = candidate).votes
  ELSE 0

\* if (!votes[candidate]) votes[candidate] = 0; votes[candidate] += 1
addTally(entries, candidate) ==
  IF \E i \in 1..Len(entries) : entries[i].name = candidate
  THEN [i \in 1..Len(entries) |->
          IF entries[i].name = candidate
          THEN [entries[i] EXCEPT !.votes = entries[i].votes + 1]
          ELSE entries[i]]
  ELSE Append(entries, [name |-> candidate, votes |-> 1])

\* records[voter] || 0
lastVoteOf(records, voter) == IF Has(records, voter) THEN records[voter] ELSE 0

\* The window is closed one second longer: now - lastVote <= twoWeeks.
senatorVoteTooSoonInclusive(clock, lastVote) == clock - lastVote <= twoWeeks

\* now - lastVote < twoWeeks
senatorVoteTooSoon(clock, lastVote) == clock - lastVote < twoWeeks

voteSenator(st, clock, voter, candidate) ==
  LET lastVote == lastVoteOf(st.votingRecords.senator, voter)
  IN IF senatorVoteTooSoon(clock, lastVote) THEN Err(st, "RateLimitError")
     ELSE Ok([st EXCEPT !.votingRecords.senator = Put(st.votingRecords.senator, voter, clock),
                        !.polls.senatorVotes = addTally(st.polls.senatorVotes, candidate),
                        !.version = st.version + 1])

\* The window of the president vote is that of the senator vote.
presidentVoteTooSoonTwoWeeks(clock, lastVote) == clock - lastVote < twoWeeks

\* now - lastVote < oneMonth
presidentVoteTooSoon(clock, lastVote) == clock - lastVote < oneMonth

\* The candidate is installed and the vote is not counted.
votePresidentUncounted(st, clock, voter, candidate) ==
  LET lastVote == lastVoteOf(st.votingRecords.president, voter)
  IN IF presidentVoteTooSoon(clock, lastVote) THEN Err(st, "RateLimitError")
     ELSE Ok([st EXCEPT !.votingRecords.president = Put(st.votingRecords.president, voter, clock),
                        !.positionsOfPower.president = candidate,
                        !.version = st.version + 1])

\* The week of the executive orders starts anew with each president: the
\* vote that installs one sets lastExecutiveOrderTime back to 0.
votePresidentNewTerm(st, clock, voter, candidate) ==
  LET lastVote == lastVoteOf(st.votingRecords.president, voter)
      tally == IF Has(st.polls.presidentVotes, candidate)
               THEN st.polls.presidentVotes[candidate] ELSE 0
  IN IF presidentVoteTooSoon(clock, lastVote) THEN Err(st, "RateLimitError")
     ELSE Ok([st EXCEPT !.votingRecords.president = Put(st.votingRecords.president, voter, clock),
                        !.polls.presidentVotes = Put(st.polls.presidentVotes, candidate, tally + 1),
                        !.positionsOfPower.president = candidate,
                        !.lastExecutiveOrderTime = 0,
                        !.version = st.version + 1])

votePresident(st, clock, voter, candidate) ==
  LET lastVote == lastVoteOf(st.votingRecords.president, voter)
      tally == IF Has(st.polls.presidentVotes, candidate)
               THEN st.polls.presidentVotes[candidate] ELSE 0
  IN IF presidentVoteTooSoon(clock, lastVote) THEN Err(st, "RateLimitError")
     ELSE Ok([st EXCEPT !.votingRecords.president = Put(st.votingRecords.president, voter, clock),
                        !.polls.presidentVotes = Put(st.polls.presidentVotes, candidate, tally + 1),
                        !.positionsOfPower.president = candidate,
                        !.version = st.version + 1])

ImpeachmentNotice == "The president has been impeached by a 3/4 majority of senators."

\* The majority asked for is that of voteOnLaw: votesFor >= (2 / 3) * totalSenators.
impeachmentMajorityTwoThirds(votesFor, totalSenators) == 3 * votesFor >= 2 * totalSenators

\* votesFor >= (3 / 4) * totalSenators
impeachmentMajority(votesFor, totalSenators) == 4 * votesFor >= 3 * totalSenators

\* Object.values(state.polls.impeachmentVotes).filter(v => v).length
affirmativeBallots(ballots) == Cardinality({v \in DOMAIN ballots : ballots[v]})

\* voteToImpeach with the ballot written before the ledger is consulted
voteToImpeachWritesFirst(st, voter, vote) ==
  LET ballots == Put(st.polls.impeachmentVotes, voter, vote)
      votesFor == affirmativeBallots(ballots)
      totalSenators == Len(st.positionsOfPower.senators)
      cast == [st EXCEPT !.polls.impeachmentVotes = ballots]
      decided == IF impeachmentMajority(votesFor, totalSenators)
                 THEN [cast EXCEPT !.positionsOfPower.president = Null,
                                   !.eventHistory = Append(cast.eventHistory, ImpeachmentNotice)]
                 ELSE cast
  IN IF ~isSenator(st, voter) THEN Err(st, "PermissionError")
     ELSE IF Has(st.polls.impeachmentVotes, voter) THEN Err(cast, "DuplicateVoteError")
     ELSE Ok([decided EXCEPT !.version = decided.version + 1])

\* Every state the engine builds has polls.impeachmentVotes, so the branch
\* that creates the missing ledger is never taken.
voteToImpeach(st, voter, vote) ==
  LET ballots == Put(st.polls.impeachmentVotes, voter, vote)
      votesFor == affirmativeBallots(ballots)
      totalSenators == Len(st.positionsOfPower.senators)
      cast == [st EXCEPT !.polls.impeachmentVotes = ballots]
      decided == IF impeachmentMajority(votesFor, totalSenators)
                 THEN [cast EXCEPT !.positionsOfPower.president = Null,
                                   !.eventHistory = Append(cast.eventHistory, ImpeachmentNotice)]
                 ELSE cast
  IN IF ~isSenator(st, voter) THEN Err(st, "PermissionError")
     ELSE IF Has(st.polls.impeachmentVotes, voter) THEN Err(st, "DuplicateVoteError")
     ELSE Ok([decided EXCEPT !.version = decided.version + 1])

\* candidates.slice(0, 40)
MaxSenators == 40

\* candidates.sort((a, b) => b[1] - a[1]): a stable sort, so the entry at
\* index i lands after every entry with more votes and after the earlier
\* entries with as many.
sortedPosition(entries, i) ==
  1 + Cardinality({j \in 1..Len(entries) :
                     \/ entries[j].votes > entries[i].votes
                     \/ entries[j].votes = entries[i].votes /\ j < i})

sortByVotes(entries) ==
  [r \in 1..Len(entries) |->
     entries[CHOOSE i \in 1..Len(entries) : sortedPosition(entries, i) = r]]

\* The value of a key that is an array index (a canonical decimal string),
\* -1 for any other key.  The candidates of the model with such names are
\* "7" and "42".
arrayIndex(name) ==
  CASE name = "7" -> 7
    [] name = "42" -> 42
    [] OTHER -> -1

\* The entries are taken in the order they were inserted.
insertionOrder(entries) == entries

\* Object.entries(state.polls.senatorVotes): the keys that are array
\* indices come first, in ascending numeric order, and the other keys
\* follow in the order they were inserted.
objectEntries(entries) ==
  LET indexed == SelectSeq(entries, LAMBDA e : arrayIndex(e.name) >= 0)
      named == SelectSeq(entries, LAMBDA e : arrayIndex(e.name) < 0)
      place(i) == 1 + Cardinality({j \in 1..Len(indexed) :
                                     arrayIndex(indexed[j].name) < arrayIndex(indexed[i].name)})
  IN [r \in 1..Len(indexed) |-> indexed[CHOOSE i \in 1..Len(indexed) : place(i) = r]] \o named

updateSenators(st) ==
  LET candidates == sortByVotes(objectEntries(st.polls.senatorVotes))
      top == SubSeq(candidates, 1, Min(Len(candidates), MaxSenators))
  IN Ok([st EXCEPT !.positionsOfPower.senators = [i \in 1..Len(top) |-> top[i].name],
                   !.version = st.version + 1])

----------------------------------------------------------------------------
(* Citizen actions                                                         *)

CoupNotice == "A coup has taken over! Government collapsed. Simulation restarting."

\* if (!state.lastActionTimes[voter]) state.lastActionTimes[voter] = { protest: 0, coup: 0 }
withActionTimes(st, voter) ==
  IF Has(st.lastActionTimes, voter) THEN st
  ELSE [st EXCEPT !.lastActionTimes = Put(st.lastActionTimes, voter, [protest |-> 0, coup |-> 0])]

\* The cooldown is still running at the moment it is over.
actionTooSoonInclusive(clock, lastTime) == clock - lastTime <= cooldown

\* now - state.lastActionTimes[voter].protest < cooldown
actionTooSoon(clock, lastTime) == clock - lastTime < cooldown

\* The penalty is applied on the call that crosses the threshold only.
protestPenalisedOnCrossing(st, clock, voter, protestAmount) ==
  LET entered == withActionTimes(st, voter)
      percentage == Min(entered.citizenActions.protestPercentage + protestAmount, 100)
      raised == [entered EXCEPT !.lastActionTimes[voter].protest = clock,
                                !.citizenActions.protestPercentage = percentage]
      punished == IF percentage >= 30 /\ entered.citizenActions.protestPercentage < 30
                  THEN [raised EXCEPT !.statistics.welfare = clampAtZero(raised.statistics.welfare - 10)]
                  ELSE raised
  IN IF actionTooSoon(clock, entered.lastActionTimes[voter].protest)
     THEN Err(entered, "RateLimitError")
     ELSE Ok([punished EXCEPT !.version = punished.version + 1])

\* The object the caller holds is changed in place, so the entry created
\* for a new voter stays in it when the call throws.
protest(st, clock, voter, protestAmount) ==
  LET entered == withActionTimes(st, voter)
      percentage == Min(entered.citizenActions.protestPercentage + protestAmount, 100)
      raised == [entered EXCEPT !.lastActionTimes[voter].protest = clock,
                                !.citizenActions.protestPercentage = percentage]
      punished == IF percentage >= 30
                  THEN [raised EXCEPT !.statistics.welfare = clampAtZero(raised.statistics.welfare - 10)]
                  ELSE raised
  IN IF actionTooSoon(clock, entered.lastActionTimes[voter].protest)
     THEN Err(entered, "RateLimitError")
     ELSE Ok([punished EXCEPT !.version = punished.version + 1])

\* The coup succeeds only at 100.
coupSucceedsAtFull(coupPercentage) == coupPercentage >= 100

\* The coup succeeds only above 70.
coupSucceedsAbove(coupPercentage) == coupPercentage > 70

\* state.citizenActions.coupPercentage >= 70
coupSucceeds(coupPercentage) == coupPercentage >= 70

\* getDefaultState hands out one object, the one the game has been
\* changing since the start: the coup pushes its notice to the game as it is.
joinCoupOnSharedDefault(st, clock, voter, coupAmount) ==
  LET entered == withActionTimes(st, voter)
      percentage == Min(entered.citizenActions.coupPercentage + coupAmount, 100)
      raised == [entered EXCEPT !.lastActionTimes[voter].coup = clock,
                                !.citizenActions.coupPercentage = percentage]
      kept == IF coupSucceeds(percentage)
              THEN [raised EXCEPT !.eventHistory = Append(raised.eventHistory, CoupNotice)]
              ELSE raised
  IN IF actionTooSoon(clock, entered.lastActionTimes[voter].coup)
     THEN Err(entered, "RateLimitError")
     ELSE Ok([kept EXCEPT !.version = kept.version + 1])

joinCoup(st, clock, voter, coupAmount) ==
  LET entered == withActionTimes(st, voter)
      percentage == Min(entered.citizenActions.coupPercentage + coupAmount, 100)
      raised == [entered EXCEPT !.lastActionTimes[voter].coup = clock,
                                !.citizenActions.coupPercentage = percentage]
      kept == IF coupSucceeds(percentage)
              THEN [getDefaultState EXCEPT !.eventHistory = <<CoupNotice>>]
              ELSE raised
  IN IF actionTooSoon(clock, entered.lastActionTimes[voter].coup)
     THEN Err(entered, "RateLimitError")
     ELSE Ok([kept EXCEPT !.version = kept.version + 1])

----------------------------------------------------------------------------
(* The legacy variant of the engine (part_002).  Its state has no          *)
(* lastExecutiveOrderTime, and voteOnLaw marks the law of a senate         *)
(* majority "approved".  The text of the other functions the variants      *)
(* share is that of simulation.ts, the default state apart that joinCoup   *)
(* returns.                                                                *)

legacyGetDefaultState ==
  [ version |-> 0,
    statistics |-> [k \in StatKeys |-> 100],
    eventHistory |-> <<>>,
    lawHistory |-> <<>>,
    laws |-> <<>>,
    polls |-> [senatorVotes |-> <<>>, presidentVotes |-> <<>>, impeachmentVotes |-> <<>>],
    citizenActions |-> [protestPercentage |-> 0, coupPercentage |-> 0],
    positionsOfPower |-> [senators |-> <<>>, president |-> Null],
    votingRecords |-> [senator |-> <<>>, president |-> <<>>],
    lastActionTimes |-> <<>> ]

legacyDraftLaw(st, clock, lawText) == draftLaw(st, clock, lawText)

\* The legacy variant marks the law of a senate majority as the current
\* one does, awaiting_president.
legacyVoteOnLawAwaiting(st, voter, lawId, vote) == voteOnLaw(st, voter, lawId, vote)

legacyVoteOnLaw(st, voter, lawId, vote) ==
  LET i == findLaw(st.laws, lawId)
      law == st.laws[i]
      cast == [law EXCEPT !.votes = Put(law.votes, voter, vote),
                          !.votesFor = IF vote THEN law.votesFor + 1 ELSE law.votesFor,
                          !.votesAgainst = IF vote THEN law.votesAgainst ELSE law.votesAgainst + 1]
      totalSenators == Len(st.positionsOfPower.senators)
      voted == IF senateMajority(cast.votesFor, totalSenators)
               THEN [cast EXCEPT !.status = "approved"]
               ELSE cast
  IN IF ~isSenator(st, voter) THEN Err(st, "PermissionError")
     ELSE IF i = 0 THEN Err(st, "NotFoundError")
     ELSE IF alreadyVoted(law.votes, voter) THEN Err(st, "DuplicateVoteError")
     ELSE Ok([st EXCEPT !.laws[i] = voted, !.version = st.version + 1])

legacyVoteSenator(st, clock, voter, candidate) == voteSenator(st, clock, voter, candidate)

legacyVotePresident(st, clock, voter, candidate) == votePresident(st, clock, voter, candidate)

legacyVoteToImpeach(st, voter, vote) == voteToImpeach(st, voter, vote)

legacyUpdateSenators(st) == updateSenators(st)

legacyProtest(st, clock, voter, protestAmount) == protest(st, clock, voter, protestAmount)

legacyJoinCoup(st, clock, voter, coupAmount) ==
  LET entered == withActionTimes(st, voter)
      percentage == Min(entered.citizenActions.coupPercentage + coupAmount, 100)
      raised == [entered EXCEPT !.lastActionTimes[voter].coup = clock,
                                !.citizenActions.coupPercentage = percentage]
      kept == IF coupSucceeds(percentage)
              THEN [legacyGetDefaultState EXCEPT !.eventHistory = <<CoupNotice>>]
              ELSE raised
  IN IF actionTooSoon(clock, entered.lastActionTimes[voter].coup)
     THEN Err(entered, "RateLimitError")
     ELSE Ok([kept EXCEPT !.version = kept.version + 1])

----------------------------------------------------------------------------
(* Inputs of the full engine specification.                                *)

LawTexts == {"Tax"}
Amounts == {-20, 70}

\* The answers of the text-generation service and the executive orders:
\* a drop that empties every statistic, a drop below zero, a rise.
Payload(effects) == [kind |-> "payload", description |-> "Floods", effects |-> effects]
EngineOracles ==
  { Payload([k \in StatKeys |-> -100]), Payload(("welfare" :> -150)),
    [kind |-> "unreachable", description |-> "", effects |-> <<>>] }
EngineOrders ==
  { [description |-> "Levy", effects |-> ("welfare" :> -150)],
    [description |-> "Levy", effects |-> ("economy" :> 10)] }

\* The clock reading after the start: the moment the citizen-action
\* cooldown closes.
ShortOffsets == {cooldown}

\* The ids a caller can name: those of the laws, and one no law has.
LawIds(st) == {st.laws[i].id : i \in 1..Len(st.laws)} \cup {0}

----------------------------------------------------------------------------
(* Actions.  A call that throws leaves the object as the function left it  *)
(* and writes nothing; a call that returns is followed by setGameState of  *)
(* the returned state, which the function has written to the store.        *)

\* The key is set only while it holds the record of the start.
persistFirst(record, written) == IF record.version = 0 THEN written ELSE record

\* The key is written only when the version written is newer than the
\* version the key holds.
persistIfNewer(record, written) == IF written.version > record.version THEN written ELSE record

\* redis.set('gameState', JSON.stringify(state)): the key holds what was
\* written, whatever it held.
persist(record, written) == written

Call(op, r) ==
  /\ r.error # "none" \/ budget > 0
  /\ state' = r.state
  /\ store' = IF r.error = "none" THEN persist(store, r.state) ELSE store
  /\ last' = [op |-> op, error |-> r.error]
  /\ lastOrderAt' = IF op = "executiveOrder" /\ r.error = "none" THEN now ELSE lastOrderAt
  /\ budget' = IF r.error = "none" THEN budget - 1 ELSE budget
  /\ UNCHANGED <<now, job, auditLogs>>

\* A call of a moderation function: as Call, and the function has pushed
\* its entry to the audit log before it wrote the state.
Moderate(op, r, details) ==
  /\ r.error # "none" \/ budget > 0
  /\ state' = r.state
  /\ store' = IF r.error = "none" THEN persist(store, r.state) ELSE store
  /\ auditLogs' = IF r.error = "none" THEN auditLog(auditLogs, now, op, details) ELSE auditLogs
  /\ last' = [op |-> op, error |-> r.error]
  /\ budget' = IF r.error = "none" THEN budget - 1 ELSE budget
  /\ UNCHANGED <<now, job, lastOrderAt>>

Tick(offsets) ==
  /\ \E d \in offsets : StartTime + d > now /\ now' = StartTime + d
  /\ UNCHANGED <<state, store, last, budget, lastOrderAt, job, auditLogs>>

SimulateEvent(tiers, oracles) ==
  \E tier \in tiers, oracle \in oracles,
     relevant \in [StatKeys -> 0..Len(approvedLaws(state))] :
    Call("simulateEvent", simulateEvent(state, tier, oracle, relevant))

\* runScheduledEvent reads the key, or takes the default state when the
\* key is empty, and calls simulateEvent, which is suspended on the
\* text-generation service.
ScheduledRead ==
  /\ job = <<>>
  /\ job' = <<store>>
  /\ UNCHANGED <<state, store, now, last, budget, lastOrderAt, auditLogs>>

\* The service has answered: simulateEvent goes on from the state the run
\* has read and writes the key; runScheduledEvent logs an error.
ScheduledWrite(tiers, oracles) ==
  /\ job # <<>>
  /\ \E tier \in tiers, oracle \in oracles,
        relevant \in [StatKeys -> 0..Len(approvedLaws(job[1]))] :
       LET r == simulateEvent(job[1], tier, oracle, relevant)
       IN /\ r.error # "none" \/ budget > 0
          /\ store' = IF r.error = "none" THEN persist(store, r.state) ELSE store
          /\ last' = [op |-> "runScheduledEvent", error |-> r.error]
          /\ budget' = IF r.error = "none" THEN budget - 1 ELSE budget
  /\ job' = <<>>
  /\ UNCHANGED <<state, now, lastOrderAt, auditLogs>>

AdjustGameState(choices) ==
  \E adjustments \in choices :
    LET r == adjustGameState(state, adjustments)
    IN Moderate("adjustGameState", r,
                [adjustments |-> adjustments, newStatistics |-> r.state.statistics])

ManageDisruptiveBehavior(voters, sanctions) ==
  \E voter \in voters, action \in sanctions :
    Moderate("manageDisruptiveBehavior", manageDisruptiveBehavior(state, voter),
             [voter |-> voter, action |-> action])

ApproveLaw ==
  \E lawId \in LawIds(state) :
    Moderate("approveLaw", approveLaw(state, lawId), [lawId |-> lawId])

DraftLaw(texts) ==
  \E lawText \in texts : Call("draftLaw", draftLaw(state, now, lawText))

VoteOnLaw(callers) ==
  \E voter \in callers, lawId \in LawIds(state), vote \in BOOLEAN :
    Call("voteOnLaw", voteOnLaw(state, voter, lawId, vote))

PassLawByPresident(callers) ==
  \E voter \in callers, lawId \in LawIds(state) :
    Call("passLawByPresident", passLawByPresident(state, voter, lawId))

VetoLawByPresident(callers) ==
  \E voter \in callers, lawId \in LawIds(state) :
    Call("vetoLawByPresident", vetoLawByPresident(state, voter, lawId))

ExecutiveOrder(callers, orders) ==
  \E voter \in callers, order \in orders :
    Call("executiveOrder", executiveOrder(state, now, voter, order))

VoteSenator(callers, candidates) ==
  \E voter \in callers, candidate \in candidates :
    Call("voteSenator", voteSenator(state, now, voter, candidate))

VotePresident(callers, candidates) ==
  \E voter \in callers, candidate \in candidates :
    Call("votePresident", votePresident(state, now, voter, candidate))

VoteToImpeach(callers) ==
  \E voter \in callers, vote \in BOOLEAN :
    Call("voteToImpeach", voteToImpeach(state, voter, vote))

UpdateSenators == Call("updateSenators", updateSenators(state))

Protest(callers, amounts) ==
  \E voter \in callers, protestAmount \in amounts :
    Call("protest", protest(state, now, voter, protestAmount))

JoinCoup(callers, amounts) ==
  \E voter \in callers, coupAmount \in amounts :
    Call("joinCoup", joinCoup(state, now, voter, coupAmount))

----------------------------------------------------------------------------
(* The full engine: every transition, from the default state.              *)

NoCall == [op |-> "none", error |-> "none"]

\* A state of a game under way: ann has been voted senator and seated,
\* bob has been voted president, a law has been drafted.
Seated ==
  LET voted == voteSenator(getDefaultState, StartTime, "ann", "ann").state
      seated == updateSenators(voted).state
      elected == votePresident(seated, StartTime, "ann", "bob").state
  IN draftLaw(elected, StartTime, "Tax").state

Start(states, accepted) ==
  /\ state \in states
  /\ store = state
  /\ now = StartTime
  /\ last = NoCall
  /\ budget = accepted
  /\ lastOrderAt = 0
  /\ job = <<>>
  /\ auditLogs = <<>>

Init == Start({getDefaultState, Seated}, MaxCalls)

Next ==
  \/ Tick(ShortOffsets)
  \/ SimulateEvent({"major"}, EngineOracles)
  \/ DraftLaw(LawTexts)
  \/ VoteOnLaw(Users)
  \/ PassLawByPresident(Users)
  \/ VetoLawByPresident(Users)
  \/ ExecutiveOrder(Users, EngineOrders)
  \/ VoteSenator(Users, Users)
  \/ VotePresident(Users, Users)
  \/ VoteToImpeach(Users)
  \/ UpdateSenators
  \/ Protest(Users, Amounts)
  \/ JoinCoup(Users, Amounts)

Spec == Init /\ [][Next]_vars

----------------------------------------------------------------------------
(* The legislature: a seated senate, a citizen who votes herself           *)
(* president, and the transitions that read or write laws, lawHistory and  *)
(* positionsOfPower.  The clock stands still, as for calls made within the *)
(* same second.                                                            *)

RECURSIVE Elect(_, _, _)
\* UserNames[first..upTo] each vote themselves senator
Elect(st, first, upTo) ==
  IF first > upTo THEN st
  ELSE Elect(voteSenator(st, StartTime, UserNames[first], UserNames[first]).state, first + 1, upTo)

\* The first `seated` of `voted` candidates sit in the senate: the others
\* were voted in after the last updateSenators.
Senate(seated, voted) ==
  Elect(updateSenators(Elect(getDefaultState, 1, seated)).state, seated + 1, voted)

Senators == {UserNames[i] : i \in 1..SenateMax}
Citizen == "zoe"

\* Candidates voted in since the last updateSenators are not seated yet.
\* The maintenance call is made then: made again, it changes version alone.
SenateStale == updateSenators(state).state.positionsOfPower # state.positionsOfPower

LawInit ==
  Start({Senate(n, n) : n \in 1..SenateMax} \cup {Senate(n, n + 1) : n \in 1..(SenateMax - 1)},
        MaxLawCalls)

LawNext ==
  \/ state.laws = <<>> /\ DraftLaw(LawTexts)
  \/ VoteOnLaw(Senators \cup {Citizen})
  \/ PassLawByPresident({Citizen, UserNames[1]})
  \/ VetoLawByPresident({Citizen, UserNames[1]})
  \/ VotePresident({Citizen}, {Citizen})
  \/ SenateStale /\ UpdateSenators

SpecLaw == LawInit /\ [][LawNext]_vars

----------------------------------------------------------------------------
(* Properties of the full engine.                                          *)

Accepted(op) == last.op = op /\ last.error = "none"
Failed(op, kind) == last.op = op /\ last.error = kind

\* C1: in every state reachable by engine transitions each of the six
\* statistics is at least 0.
C1_StatisticsNonNegative == \A k \in StatKeys : state.statistics[k] >= 0

\* An executive order took welfare from 100 by -150 and left it at 0.
C1_Witness ==
  /\ Accepted("executiveOrder")
  /\ state.statistics["welfare"] = 0
  /\ state.statistics["economy"] = 100

\* C6 as stated: the state an accepted joinCoup returns when it brings
\* coupPercentage to 70 or more is getDefaultState() in every field,
\* version included, but for eventHistory, which holds the coup notice alone.
C6_ResetIsDefaultState ==
  [][\A voter \in Users, coupAmount \in Amounts :
       ( /\ budget' < budget /\ last'.op = "joinCoup"
         /\ joinCoup(state, now, voter, coupAmount) = Ok(state')
         /\ state.citizenActions.coupPercentage + coupAmount >= 70 )
       => state' = [getDefaultState EXCEPT !.eventHistory = <<CoupNotice>>]]_vars

\* C6, amended: the state an accepted joinCoup returns when it brings
\* coupPercentage to 70 or more is getDefaultState() in every field but
\* eventHistory, which holds the coup notice alone, and version, which is 1.
C6_ResetIsDefaultStateVersionOne ==
  [][\A voter \in Users, coupAmount \in Amounts :
       ( /\ budget' < budget /\ last'.op = "joinCoup"
         /\ joinCoup(state, now, voter, coupAmount) = Ok(state')
         /\ state.citizenActions.coupPercentage + coupAmount >= 70 )
       => state' = [getDefaultState EXCEPT !.eventHistory = <<CoupNotice>>, !.version = 1]]_vars

\* A coup has just reset a game in which bob was president.
C6_Witness ==
  /\ Accepted("joinCoup")
  /\ state.eventHistory = <<CoupNotice>>
  /\ store.positionsOfPower.president = Null
  /\ lastOrderAt > 0

\* C8: every accepted transition returns a state whose version is strictly
\* greater than the version of the state it was given.
C8_VersionIncreases ==
  [][budget' < budget => state'.version > state.version]_vars

\* C9: a call that fails a precondition leaves the GameState object as it
\* was and writes nothing to the store.
C9_NoPartialWrites ==
  [][last'.error # "none" => state' = state /\ store' = store]_vars

\* A senator who has cast an impeachment ballot was refused a second one.
C9_Witness ==
  /\ Failed("voteToImpeach", "DuplicateVoteError")
  /\ \E voter \in Users : Has(state.polls.impeachmentVotes, voter)

\* C12: law ids are unique: in every reachable state no two laws have the
\* same id, two drafts made at the same clock reading included.
C12_LawIdsUnique ==
  \A i, j \in 1..Len(state.laws) : i # j => state.laws[i].id # state.laws[j].id

----------------------------------------------------------------------------
(* Impeachment: a seated senate, two citizens who vote for president, and  *)
(* the transitions that read or write polls.impeachmentVotes and           *)
(* positionsOfPower.  The clock stands still.                              *)

Citizens == {Citizen, "yan"}

ImpeachInit ==
  Start({Senate(n, n) : n \in 1..SenateMax} \cup {Senate(n, n + 1) : n \in 1..(SenateMax - 1)},
        MaxImpeachCalls)

ImpeachNext ==
  \/ VoteToImpeach(Senators \cup {Citizen})
  \/ VotePresident(Citizens, {Citizen})
  \/ SenateStale /\ UpdateSenators

SpecImpeach == ImpeachInit /\ [][ImpeachNext]_vars

----------------------------------------------------------------------------
(* Elections: the transitions that read or write votingRecords and the     *)
(* tallies, and the coup, which resets them.  The clock reaches the end of *)
(* the two-week and of the 30-day window.                                  *)

ElectionOffsets == {twoWeeks - 1, twoWeeks, oneMonth - 1, oneMonth}

ElectionInit == Start({getDefaultState}, MaxElectionCalls)

ElectionNext ==
  \/ Tick(ElectionOffsets)
  \/ VoteSenator(Users, Users)
  \/ VotePresident(Users, Users)
  \/ SenateStale /\ UpdateSenators
  \/ JoinCoup(Users, {70})

SpecElection == ElectionInit /\ [][ElectionNext]_vars

----------------------------------------------------------------------------
(* Executive orders: the transitions that read or write                    *)
(* lastExecutiveOrderTime and the presidency (votePresident and the        *)
(* impeachment), and the two resets.  The                                  *)
(* clock reaches the end of the one-week window.                           *)

OrderOffsets == {oneWeek - 1, oneWeek}

\* The orders of the president: those of the full engine, one that
\* empties every statistic, and one with a key that is no statistic.
OrderChoices ==
  EngineOrders \cup {[description |-> "Ruin", effects |-> [k \in StatKeys |-> -100]],
                     [description |-> "Decree", effects |-> ("morale" :> 50) @@ ("welfare" :> -150)]}

OrderInit == Start({getDefaultState, Seated}, MaxOrderCalls)

OrderNext ==
  \/ Tick(OrderOffsets)
  \/ VotePresident(Users, Users)
  \/ ExecutiveOrder(Users, OrderChoices)
  \/ VoteToImpeach(Users)
  \/ JoinCoup(Users, {70})
  \/ SimulateEvent({"crisis"}, {Payload([k \in StatKeys |-> -100])})

SpecOrder == OrderInit /\ [][OrderNext]_vars

----------------------------------------------------------------------------
(* Random events: simulateEvent under every answer of the text-generation  *)
(* service, with and without a law the moderator has approved, which the   *)
(* relevance oracle may then judge relevant to a statistic.                *)

EventTiers == {"minor", "crisis"}

\* A payload that empties every statistic, one that takes welfare below
\* zero and raises economy, one with a key that is no statistic, and
\* every way the service fails.
EventOracles ==
  { Payload([k \in StatKeys |-> -100]),
    Payload(("welfare" :> -150) @@ ("economy" :> 50)),
    Payload(("morale" :> 50) @@ ("welfare" :> -50)) }
    \cup {[kind |-> k, description |-> "", effects |-> <<>>] :
            k \in {"unparseable", "unreachable", "no_choices", "no_api_key"}}

EventInit == Start({getDefaultState, Seated}, MaxEventCalls)

EventNext ==
  \/ SimulateEvent(EventTiers, EventOracles)
  \/ ApproveLaw

SpecEvent == EventInit /\ [][EventNext]_vars

----------------------------------------------------------------------------
(* Concurrency: a session that drafts laws and protests on the state it    *)
(* holds while a run of the scheduled event is under way on the state it   *)
(* has read from the same key.                                             *)

ScheduledOracles ==
  { Payload(("welfare" :> -50)), [kind |-> "unreachable", description |-> "", effects |-> <<>>] }

ConcurrentInit == Start({getDefaultState, Seated}, MaxConcurrentCalls)

ConcurrentNext ==
  \/ DraftLaw(LawTexts)
  \/ Protest(Users, {70})
  \/ ScheduledRead
  \/ ScheduledWrite({"minor"}, ScheduledOracles)

SpecConcurrent == ConcurrentInit /\ [][ConcurrentNext]_vars

----------------------------------------------------------------------------
(* Citizen actions: protest and joinCoup with amounts below, at and above  *)
(* zero, from the default state, from a game under way and from one whose  *)
(* welfare is nearly spent.  The clock reaches the end of the cooldown     *)
(* twice.                                                                  *)

CitizenAmounts == {-20, 0, 30, 80}

CitizenOffsets == {cooldown, 2 * cooldown}

\* The president of the game under way has cut welfare to 5.
Impoverished ==
  executiveOrder(Seated, StartTime, "bob",
                 [description |-> "Levy", effects |-> ("welfare" :> -95)]).state

CitizenInit == Start({getDefaultState, Seated, Impoverished}, MaxCitizenCalls)

CitizenNext ==
  \/ Tick(CitizenOffsets)
  \/ Protest(Users, CitizenAmounts)
  \/ JoinCoup(Users, CitizenAmounts)

SpecCitizen == CitizenInit /\ [][CitizenNext]_vars

----------------------------------------------------------------------------
(* The election of the senate: voteSenator and updateSenators, from the    *)
(* default state and from a poll with one candidate more than the senate   *)
(* has seats; two of the candidates have names that are array indices.    *)

SenateVoters == {"ann", "bob", "cat"}
SenateCandidates == {"ann", "7", "42"}

CrowdNames == [i \in 1..(MaxSenators + 1) |-> "u" \o ToString(i)]

\* The state after each of CrowdNames, in turn, has voted themselves
\* senator at StartTime.
Crowd ==
  [getDefaultState EXCEPT
     !.polls.senatorVotes = [i \in 1..Len(CrowdNames) |-> [name |-> CrowdNames[i], votes |-> 1]],
     !.votingRecords.senator = [n \in Range(CrowdNames) |-> StartTime],
     !.version = Len(CrowdNames)]

SenateInit == Start({getDefaultState, Crowd}, MaxSenateCalls)

SenateNext ==
  \/ VoteSenator(SenateVoters, SenateCandidates)
  \/ UpdateSenators

SpecSenate == SenateInit /\ [][SenateNext]_vars

-----------------------------------------------------------------------------
(* The permission slice: the votes of the senate, called by candidates    *)
(* who are seated, who are not, and who lose their seat when               *)
(* updateSenators runs again after a vote for the candidate left out; in  *)
(* one of the games a law is one ballot short of the senate's majority.   *)

\* Accepted calls of a run of the permission slice
MaxPermissionCalls == 3

\* The callers of the senate's votes: the last candidate seated from the
\* crowd, the first one left out, and one with no tally at all.
SenateCallers == {"u40", "u41", "ann"}

\* The candidate the crowd left out, whom one more vote seats
LeftOut == {"u41"}

\* The crowd once updateSenators has seated its first forty
CrowdSeated == updateSenators(Crowd).state

\* The senators who have voted for the law of the seeded game: one fewer
\* than the 27 the threshold of a senate of 40 asks for, the last senator
\* seated among them.
Backers == {CrowdNames[i] : i \in 15..MaxSenators}

\* The seated crowd after a law was drafted and each of Backers, in turn,
\* has voted for it at StartTime.
Balloted ==
  LET drafted == draftLaw(CrowdSeated, StartTime, "Tax").state
  IN [drafted EXCEPT !.laws[1].votes = [n \in Backers |-> TRUE],
                     !.laws[1].votesFor = Cardinality(Backers),
                     !.version = drafted.version + Cardinality(Backers)]

PermissionInit == Start({getDefaultState, CrowdSeated, Balloted}, MaxPermissionCalls)

PermissionNext ==
  \/ VoteSenator(SenateCallers, LeftOut)
  \/ UpdateSenators
  \/ state.laws = <<>> /\ DraftLaw(LawTexts)
  \/ VoteOnLaw(SenateCallers)
  \/ VoteToImpeach(SenateCallers)

SpecPermission == PermissionInit /\ [][PermissionNext]_vars

-----------------------------------------------------------------------------
(* Moderation: adjustGameState and manageDisruptiveBehavior among the      *)
(* votes and the citizen actions whose timers the moderator clears.  The   *)
(* clock stands still, so every timer a call has set is running.           *)

\* Accepted calls of a run of the moderation slice
MaxModerationCalls == 3

\* What a moderator sets: a statistic below 0, one within range, one at 0
\* together with a key that is no statistic, and nothing.
Adjustments ==
  { ("welfare" :> -5), ("economy" :> 40),
    ("military" :> 0 @@ "morale" :> 7), <<>> }

Sanctions == {"warn"}

ModerationInit == Start({getDefaultState, Seated}, MaxModerationCalls)

ModerationNext ==
  \/ AdjustGameState(Adjustments)
  \/ ManageDisruptiveBehavior(Users, Sanctions)
  \/ VoteSenator(Users, {"ann"})
  \/ VotePresident(Users, {"bob"})
  \/ Protest(Users, {30})
  \/ JoinCoup(Users, {30})

SpecModeration == ModerationInit /\ [][ModerationNext]_vars

-----------------------------------------------------------------------------
(* The operations the current and the legacy variant share, from the       *)
(* default state.  The clock stands still.                                 *)

\* Accepted calls of a run of the shared operations
MaxSharedCalls == 4

SharedInit == Start({getDefaultState}, MaxSharedCalls)

SharedNext ==
  \/ state.laws = <<>> /\ DraftLaw(LawTexts)
  \/ VoteOnLaw(Users)
  \/ VoteSenator(Users, Users)
  \/ VotePresident(Users, {"bob"})
  \/ VoteToImpeach(Users)
  \/ SenateStale /\ UpdateSenators
  \/ Protest(Users, {30})
  \/ JoinCoup(Users, {70})

SpecShared == SharedInit /\ [][SharedNext]_vars

----------------------------------------------------------------------------
(* Properties of the legislature.                                          *)

\* The least integer that is at least num / den
Ceiling(num, den) == (num + den - 1) \div den

\* A second ballot of a senator on a law is refused, whatever its value,
\* and the call leaves the state, so the law, as it was.
SecondBallotRefused ==
  \A voter \in Range(state.positionsOfPower.senators), i \in 1..Len(state.laws), vote \in BOOLEAN :
    (findLaw(state.laws, state.laws[i].id) = i /\ voter \in DOMAIN state.laws[i].votes)
      => voteOnLaw(state, voter, state.laws[i].id, vote) = Err(state, "DuplicateVoteError")

\* C2: a senator casts at most one ballot per law: a second voteOnLaw by
\* the same voter on the same law fails with DuplicateVoteError and leaves
\* the law as it was, and an accepted voteOnLaw adds the ballot of a
\* senator who had none on that law, changing no ballot cast before.
C2_OneBallotPerLaw ==
  [][ /\ state' # state => SecondBallotRefused'
      /\ (budget' < budget /\ last'.op = "voteOnLaw") =>
           \E i \in 1..Len(state.laws), voter \in Range(state.positionsOfPower.senators) :
             /\ voter \notin DOMAIN state.laws[i].votes
             /\ DOMAIN state'.laws[i].votes = DOMAIN state.laws[i].votes \cup {voter}
             /\ \A v \in DOMAIN state.laws[i].votes : state'.laws[i].votes[v] = state.laws[i].votes[v]
             /\ state'.laws[i].votesFor + state'.laws[i].votesAgainst
                  = state.laws[i].votesFor + state.laws[i].votesAgainst + 1 ]_vars

\* A senator whose ballot on the law was against has been refused a second one.
C2_Witness ==
  /\ Failed("voteOnLaw", "DuplicateVoteError")
  /\ \E i \in 1..Len(state.laws), voter \in Range(state.positionsOfPower.senators) :
       voter \in DOMAIN state.laws[i].votes /\ ~state.laws[i].votes[voter]

\* C3: after an accepted voteOnLaw on a pending law the law is
\* awaiting_president if its votesFor is at least ceil(2/3 * |senators|)
\* and pending otherwise; with 5 senators that is from the 4th yes vote on.
C3_SenateThreshold ==
  [][ (budget' < budget /\ last'.op = "voteOnLaw") =>
        \A i \in 1..Len(state.laws) :
          (state'.laws[i] # state.laws[i] /\ state.laws[i].status = "pending") =>
            LET senators == Len(state.positionsOfPower.senators)
                votesFor == state'.laws[i].votesFor
                status == state'.laws[i].status
            IN /\ status = IF votesFor >= Ceiling(2 * senators, 3)
                           THEN "awaiting_president" ELSE "pending"
               /\ senators = 5 => (status = "awaiting_president" <=> votesFor >= 4) ]_vars

\* With 5 senators the 4th yes vote has moved the law to awaiting_president.
C3_Witness ==
  /\ Accepted("voteOnLaw")
  /\ Len(state.positionsOfPower.senators) = 5
  /\ \E i \in 1..Len(state.laws) :
       /\ state.laws[i].votesFor = 4
       /\ state.laws[i].votesAgainst = 0
       /\ state.laws[i].status = "awaiting_president"

LifecycleEdges ==
  { <<"pending", "awaiting_president">>,
    <<"awaiting_president", "passed">>,
    <<"awaiting_president", "vetoed">> }

\* C10: a law's status only moves along pending -> awaiting_president ->
\* {passed, vetoed}, so a passed or vetoed law keeps its status, and
\* lawHistory receives at most one disposition line per law.
C10_LawLifecycle ==
  [][ /\ \A i \in 1..Len(state.laws) :
           \/ state'.laws[i].status = state.laws[i].status
           \/ <<state.laws[i].status, state'.laws[i].status>> \in LifecycleEdges
      /\ Len(state'.lawHistory) <= Len(state'.laws) ]_vars

\* What a decision of `voter` on the law `lawId` is to do, r being what
\* it did: refuse whoever is not the president, then an id no law has,
\* then a law that is not awaiting_president; otherwise set the status of
\* the law and append one line to lawHistory, every other law as it was.
DecisionRules(r, voter, lawId, status) ==
  LET hits == {i \in 1..Len(state.laws) : state.laws[i].id = lawId}
      i == CHOOSE h \in hits : \A g \in hits : h <= g
  IN IF voter # state.positionsOfPower.president THEN r = Err(state, "PermissionError")
     ELSE IF hits = {} THEN r = Err(state, "NotFoundError")
     ELSE IF state.laws[i].status # "awaiting_president" THEN r = Err(state, "StateError")
     ELSE /\ r.error = "none"
          /\ r.state.laws[i] = [state.laws[i] EXCEPT !.status = status]
          /\ Len(r.state.laws) = Len(state.laws)
          /\ \A j \in 1..Len(state.laws) : j # i => r.state.laws[j] = state.laws[j]
          /\ Len(r.state.lawHistory) = Len(state.lawHistory) + 1
          /\ SubSeq(r.state.lawHistory, 1, Len(state.lawHistory)) = state.lawHistory

\* C11: passLawByPresident and vetoLawByPresident fail with PermissionError
\* unless the caller is the current president (so always while there is
\* none), with NotFoundError for an unknown id and with StateError unless
\* the law is awaiting_president; on success the law is passed (vetoed),
\* one line is appended to lawHistory and the other laws are unchanged.
C11_PresidentDecision ==
  \A voter \in {Citizen, UserNames[1]}, lawId \in LawIds(state) :
    /\ DecisionRules(passLawByPresident(state, voter, lawId), voter, lawId, "passed")
    /\ DecisionRules(vetoLawByPresident(state, voter, lawId), voter, lawId, "vetoed")

\* The president has been refused a veto of a law already passed.
C11_Witness ==
  /\ Failed("vetoLawByPresident", "StateError")
  /\ state.positionsOfPower.president = Citizen
  /\ \E i \in 1..Len(state.laws) : state.laws[i].status = "passed"
  /\ Len(state.lawHistory) = 1

----------------------------------------------------------------------------
(* Properties of impeachment.                                              *)

\* C4: after an accepted voteToImpeach, if the affirmative ballots are at
\* least ceil(3/4 * |senators|) the president is null and the impeachment
\* notice has been appended to eventHistory, and otherwise president and
\* eventHistory are as before; with 4 senators that is from 3 ballots on.
C4_ImpeachmentThreshold ==
  [][ (budget' < budget /\ last'.op = "voteToImpeach") =>
        LET senators == Len(state.positionsOfPower.senators)
            ballots == state'.polls.impeachmentVotes
            affirmative == Cardinality({v \in DOMAIN ballots : ballots[v]})
            cleared == /\ state'.positionsOfPower.president = Null
                       /\ state'.eventHistory = Append(state.eventHistory, ImpeachmentNotice)
            untouched == /\ state'.positionsOfPower.president = state.positionsOfPower.president
                         /\ state'.eventHistory = state.eventHistory
        IN /\ IF affirmative >= Ceiling(3 * senators, 4) THEN cleared ELSE untouched
           /\ senators = 4 => IF affirmative >= 3 THEN cleared ELSE untouched ]_vars

\* With 4 senators the 3rd affirmative ballot has removed an elected president.
C4_Witness ==
  /\ Accepted("voteToImpeach")
  /\ Len(state.positionsOfPower.senators) = 4
  /\ affirmativeBallots(state.polls.impeachmentVotes) = 3
  /\ Cardinality(DOMAIN state.polls.impeachmentVotes) = 3
  /\ Citizen \in DOMAIN state.polls.presidentVotes
  /\ state.positionsOfPower.president = Null
  /\ state.eventHistory = <<ImpeachmentNotice>>

----------------------------------------------------------------------------
(* Properties of the elections.                                            *)

\* A voter whose last accepted senator vote is less than 14 days old is
\* refused and the state stays as it was; any other voter is accepted, the
\* vote is stamped with the clock and the candidate's tally alone grows by 1.
SenatorVoteWindow ==
  \A voter \in Users, candidate \in Users :
    LET records == state.votingRecords.senator
        r == voteSenator(state, now, voter, candidate)
    IN IF voter \in DOMAIN records /\ now - records[voter] < 14 * 24 * 3600
       THEN r = Err(state, "RateLimitError")
       ELSE /\ r.error = "none"
            /\ r.state.votingRecords.senator[voter] = now
            /\ \A c \in Users :
                 tallyOf(r.state.polls.senatorVotes, c)
                   = tallyOf(state.polls.senatorVotes, c) + (IF c = candidate THEN 1 ELSE 0)

\* C5: once a voteSenator of a voter is accepted at t, with no reset in
\* between a voteSenator of that voter at t' fails with RateLimitError and
\* changes no tally and no timestamp when t' - t < 14 days, and is accepted
\* when t' - t >= 14 days; an accepted vote records the clock as the
\* voter's timestamp.
C5_SenatorVoteCooldown ==
  [][ /\ (state' # state \/ now' # now) => SenatorVoteWindow'
      /\ (budget' < budget /\ last'.op = "voteSenator") =>
           \E voter \in Users :
             /\ voter \in DOMAIN state'.votingRecords.senator
             /\ state'.votingRecords.senator[voter] = now
             /\ (voter \in DOMAIN state.votingRecords.senator =>
                   now - state.votingRecords.senator[voter] >= 14 * 24 * 3600) ]_vars

\* One second before the 14 days are over a voter has been refused.
C5_Witness ==
  /\ Failed("voteSenator", "RateLimitError")
  /\ \E voter \in Users :
       /\ voter \in DOMAIN state.votingRecords.senator
       /\ now - state.votingRecords.senator[voter] = 14 * 24 * 3600 - 1

----------------------------------------------------------------------------
(* Properties of the executive orders.                                     *)

\* The president's order is refused, the state staying as it was, when
\* less than 7 days have passed since `since`, and is accepted otherwise.
OrderWindow(since) ==
  \A order \in EngineOrders :
    LET president == state.positionsOfPower.president
        r == executiveOrder(state, now, president, order)
    IN president # Null =>
         IF now - since < 7 * 24 * 3600
         THEN r = Err(state, "RateLimitError")
         ELSE r.error = "none" /\ r.state.lastExecutiveOrderTime = now

\* C7 as stated: after an executive order accepted at t, an order of the
\* president at t' fails with RateLimitError and changes nothing when
\* t' - t < 7 days, and is accepted when t' - t >= 7 days.
C7_OrderCooldown == lastOrderAt > 0 => OrderWindow(lastOrderAt)

\* C7, amended: the same, provided no full-state reset (coup or collapse)
\* happened since the order accepted at t.
C7_OrderCooldownSinceReset ==
  (lastOrderAt > 0 /\ state.lastExecutiveOrderTime = lastOrderAt) => OrderWindow(lastOrderAt)

\* One second before the 7 days are over the president has been refused.
C7_Witness ==
  /\ Failed("executiveOrder", "RateLimitError")
  /\ state.positionsOfPower.president # Null
  /\ now - lastOrderAt = 7 * 24 * 3600 - 1
  /\ state.lastExecutiveOrderTime = lastOrderAt

\* C13: the simulation collapses whenever the mean of the six statistics
\* is exactly 0: no state an engine transition returns and persists has all
\* six statistics equal to 0.
C13_NoAllZeroRecord == \E k \in StatKeys : store.statistics[k] # 0

----------------------------------------------------------------------------
(* Properties of the random events.                                        *)

NoneRelevant == [k \in StatKeys |-> 0]

Prefix(tier) == IF tier = "minor" THEN "[MINOR] " ELSE "[CRISIS] "

\* The statistics after the effects are added, none below 0.
Applied(statistics, effects) ==
  [k \in StatKeys |->
     IF k \in DOMAIN effects
     THEN IF statistics[k] + effects[k] < 0 THEN 0 ELSE statistics[k] + effects[k]
     ELSE statistics[k]]

MeanIsZero(statistics) ==
  statistics.military + statistics.economy + statistics.healthcare
    + statistics.welfare + statistics.education + statistics.technology = 0

\* What simulateEvent returns for a well-formed payload when no law is
\* judged relevant.
EventRules ==
  \A tier \in EventTiers, oracle \in EventOracles :
    oracle.kind = "payload" =>
      LET r == simulateEvent(state, tier, oracle, NoneRelevant)
          applied == Applied(state.statistics, oracle.effects)
      IN /\ r.error = "none"
         /\ r.state =
              IF MeanIsZero(applied)
              THEN [getDefaultState EXCEPT
                      !.eventHistory = <<"Country collapsed! Restarting simulation.">>,
                      !.version = 1]
              ELSE [state EXCEPT
                      !.statistics = applied,
                      !.eventHistory = Append(state.eventHistory, Prefix(tier) \o oracle.description),
                      !.version = state.version + 1]

\* C14: simulateEvent adds the event's effects to the statistics, each
\* clamped at 0, and appends the tier-prefixed description to eventHistory;
\* if the mean of the six statistics is then exactly 0 it returns a fresh
\* default state whose eventHistory holds the collapse notice alone, and
\* otherwise every field but statistics, eventHistory and version is as it
\* was.  The version of the returned state is one more than that of the
\* state the transition ends with.
C14_EventApplied ==
  /\ []EventRules
  /\ [][ (budget' < budget /\ last'.op = "simulateEvent") =>
              \/ /\ state'.eventHistory = <<"Country collapsed! Restarting simulation.">>
                 /\ [state' EXCEPT !.eventHistory = <<>>, !.version = 0] = getDefaultState
              \/ /\ Len(state'.eventHistory) = Len(state.eventHistory) + 1
                 /\ ~MeanIsZero(state'.statistics)
                 /\ [state' EXCEPT !.statistics = state.statistics,
                                   !.eventHistory = state.eventHistory,
                                   !.version = state.version] = state ]_vars

\* An event has emptied every statistic and the simulation has restarted.
C14_Witness ==
  /\ Accepted("simulateEvent")
  /\ state.eventHistory = <<"Country collapsed! Restarting simulation.">>
  /\ state.version = 1
  /\ \A k \in StatKeys : state.statistics[k] = 100

\* C16: the random-event path never surfaces an oracle failure: whatever
\* the service does, simulateEvent completes without error, and in every
\* failure case it applies the zero-effect fallback event: statistics as
\* they were, one description appended to eventHistory, version + 1.
C16_OracleFailureRecovered ==
  [][ last'.op = "simulateEvent" =>
        /\ last'.error = "none"
        /\ \A tier \in EventTiers, oracle \in EventOracles :
             oracle.kind # "payload" =>
               simulateEvent(state, tier, oracle, NoneRelevant)
                 = Ok([state EXCEPT
                         !.eventHistory =
                            Append(state.eventHistory,
                                   Prefix(tier) \o "A quiet week passes with no significant events."),
                         !.version = state.version + 1]) ]_vars

\* C17: with k >= 1 laws judged relevant to a statistic, a negative effect
\* e is scaled down by 20% per relevant law, so the decrease applied is
\* never larger than |e|, and a positive effect is scaled up by 10% per
\* relevant law, the increase applied being e * (1 + 0.1k).
C17_RelevanceAdjustment ==
  \A tier \in EventTiers, oracle \in EventOracles :
    oracle.kind = "payload" =>
      \A key \in DOMAIN oracle.effects \cap StatKeys, k \in 1..Len(approvedLaws(state)) :
        LET judged == [x \in StatKeys |-> IF x = key THEN k ELSE 0]
            r == simulateEvent(state, tier, oracle, judged)
            e == oracle.effects[key]
            before == state.statistics[key]
            after == r.state.statistics[key]
            collapsed == r.state.eventHistory = <<"Country collapsed! Restarting simulation.">>
        IN (r.error = "none" /\ ~collapsed) =>
             /\ e < 0 => before - after <= -e
             /\ e > 0 => 10 * (after - before) = e * (10 + k)

----------------------------------------------------------------------------
(* Properties of concurrent transitions.                                   *)

\* C15: the engine checks no version before it writes: a scheduled event
\* that read version N writes version N + 1 and its own effects alone,
\* whatever the key holds by then, so that of two transitions that both
\* start from version N and both write version N + 1 the record holds the
\* effects of the later write only.
C15_LastWriteWins ==
  [][ (job # <<>> /\ job' = <<>> /\ last'.error = "none") =>
        /\ store' = [job[1] EXCEPT
                       !.statistics.welfare =
                          IF job[1].statistics.welfare < 50 THEN 0
                          ELSE job[1].statistics.welfare - 50,
                       !.eventHistory = Append(job[1].eventHistory, "[MINOR] Floods"),
                       !.version = job[1].version + 1]
        /\ state' = state ]_vars

\* The session and the scheduled event have both written the version
\* after the one they read, and the law the session drafted is not in the
\* record.
C15_Witness ==
  /\ Accepted("runScheduledEvent")
  /\ store.version = state.version
  /\ Len(state.laws) = Len(store.laws) + 1
  /\ state.eventHistory = <<>>
  /\ store.eventHistory = <<"[MINOR] Floods">>

----------------------------------------------------------------------------
(* Properties of the citizen actions.                                      *)

\* The step is an accepted call of `op`.
AcceptedStep(op) == budget' < budget /\ last'.op = op

\* The step has replaced the state by the default state and one notice.
ResetStep ==
  /\ state'.version = 1
  /\ Len(state'.eventHistory) = 1
  /\ state'.citizenActions = [protestPercentage |-> 0, coupPercentage |-> 0]

\* C18: an accepted protest adds the amount to protestPercentage, capped at
\* 100, and whenever the result is at least 30 it lowers welfare by 10,
\* clamped at 0: on every accepted call while protestPercentage stays at
\* 30 or more, not only on the first.
C18_ProtestPenalty ==
  [][ AcceptedStep("protest") =>
        \E amount \in CitizenAmounts :
          LET before == state.citizenActions.protestPercentage
              after == IF before + amount > 100 THEN 100 ELSE before + amount
              welfare == state.statistics.welfare
          IN /\ state'.citizenActions.protestPercentage = after
             /\ state'.statistics.welfare =
                  IF after >= 30 THEN (IF welfare < 10 THEN 0 ELSE welfare - 10) ELSE welfare
             /\ state'.citizenActions.coupPercentage = state.citizenActions.coupPercentage ]_vars

\* A protest made while protestPercentage was already 30 or more has
\* lowered welfare again.
C18_Witness ==
  /\ Accepted("protest")
  /\ state.citizenActions.protestPercentage >= 30
  /\ state.statistics.welfare = 80
  /\ state.eventHistory = <<>>

\* C19: the welfare penalty of protest is applied once per crossing of the
\* 30% threshold: a protest lowers welfare only on the call that takes
\* protestPercentage from below 30 to 30 or more.
C19_PenaltyOncePerCrossing ==
  [][ (AcceptedStep("protest") /\ state'.statistics.welfare < state.statistics.welfare) =>
        /\ state.citizenActions.protestPercentage < 30
        /\ state'.citizenActions.protestPercentage >= 30 ]_vars

\* C20: protestPercentage and coupPercentage lie in [0,100] in every
\* reachable state, and every accepted transition other than a full-state
\* reset leaves each of them at least what it was, whatever the amount.
C20_PercentagesBoundedMonotone ==
  /\ [](/\ state.citizenActions.protestPercentage \in 0..100
        /\ state.citizenActions.coupPercentage \in 0..100)
  /\ [][ (budget' < budget /\ ~ResetStep) =>
           /\ state'.citizenActions.protestPercentage >= state.citizenActions.protestPercentage
           /\ state'.citizenActions.coupPercentage >= state.citizenActions.coupPercentage ]_vars


\* C21: a coupPercentage of 70 or more always triggers the reset: no state
\* an engine transition returns has coupPercentage 70 or more, and the
\* state the joinCoup call that reaches 70 returns has coupPercentage 0
\* and protestPercentage 0.
C21_CoupAlwaysResets ==
  /\ [](state.citizenActions.coupPercentage < 70 /\ store.citizenActions.coupPercentage < 70)
  /\ [][ AcceptedStep("joinCoup") =>
           \E amount \in CitizenAmounts :
             IF state.citizenActions.coupPercentage + amount >= 70
             THEN state'.citizenActions = [protestPercentage |-> 0, coupPercentage |-> 0]
             ELSE state'.citizenActions =
                    [state.citizenActions EXCEPT
                       !.coupPercentage = state.citizenActions.coupPercentage + amount] ]_vars

\* The last call the run accepts, a joinCoup, has reset the game: both
\* percentages are 0 and the coup notice is the whole of eventHistory.
C21_Witness ==
  /\ Accepted("joinCoup")
  /\ state.eventHistory = <<"A coup has taken over! Government collapsed. Simulation restarting.">>
  /\ state.citizenActions = [protestPercentage |-> 0, coupPercentage |-> 0]
  /\ budget = 0


\* The tally of a candidate for president, 0 when there is none.
PresidentTally(st, candidate) ==
  IF candidate \in DOMAIN st.polls.presidentVotes THEN st.polls.presidentVotes[candidate] ELSE 0

\* A voter whose last accepted president vote is less than 30 days old is
\* refused and the state stays as it was, whatever the voter's senator
\* record; any other voter is accepted: the vote is stamped with the clock,
\* the candidate's tally alone grows by 1, the candidate is president, and
\* the senator records and tallies are as they were.
PresidentVoteRules ==
  \A voter \in Users, candidate \in Users :
    LET records == state.votingRecords.president
        r == votePresident(state, now, voter, candidate)
    IN IF voter \in DOMAIN records /\ now - records[voter] < 30 * 24 * 3600
       THEN r = Err(state, "RateLimitError")
       ELSE /\ r.error = "none"
            /\ r.state.votingRecords.president[voter] = now
            /\ \A other \in DOMAIN records \ {voter} :
                 r.state.votingRecords.president[other] = records[other]
            /\ \A c \in Users :
                 PresidentTally(r.state, c)
                   = PresidentTally(state, c) + (IF c = candidate THEN 1 ELSE 0)
            /\ r.state.positionsOfPower.president = candidate
            /\ r.state.votingRecords.senator = state.votingRecords.senator
            /\ r.state.polls.senatorVotes = state.polls.senatorVotes

\* C22: an accepted votePresident records the voter's timestamp, adds 1 to
\* the candidate's presidentVotes tally and makes the candidate president
\* at once, whatever the other tallies; a second votePresident of the voter
\* less than 30 days later fails with RateLimitError and changes neither
\* tallies nor president; the president cooldown and the senator cooldown
\* of a voter do not touch each other.
C22_PresidentVote ==
  /\ []PresidentVoteRules
  /\ [][ /\ AcceptedStep("voteSenator") =>
              /\ state'.votingRecords.president = state.votingRecords.president
              /\ state'.polls.presidentVotes = state.polls.presidentVotes
              /\ state'.positionsOfPower.president = state.positionsOfPower.president
         /\ AcceptedStep("votePresident") =>
              state'.votingRecords.senator = state.votingRecords.senator ]_vars

\* The candidate with the smaller tally has just been made president.
C22_Witness ==
  /\ Accepted("votePresident")
  /\ state.positionsOfPower.president = "bob"
  /\ PresidentTally(state, "bob") = 1
  /\ PresidentTally(state, "ann") = 2


----------------------------------------------------------------------------
(* Properties of the senate election.                                      *)

\* The candidates in the order their tallies were inserted.
InsertionOrder == [i \in 1..Len(state.polls.senatorVotes) |-> state.polls.senatorVotes[i].name]

\* The candidates in the order the tally mapping enumerates them: the
\* names that are array indices first, the smaller first, and then the
\* other names in the order they were inserted.
EnumerationOrder ==
  LET inserted == Range(InsertionOrder)
  IN (IF "7" \in inserted THEN <<"7">> ELSE <<>>)
       \o (IF "42" \in inserted THEN <<"42">> ELSE <<>>)
       \o SelectSeq(InsertionOrder, LAMBDA n : n \notin {"7", "42"})

\* updateSenators seats the at most 40 candidates with the highest
\* tallies, the higher tally first and equal tallies in the order of
\* `keys`, and leaves the tallies as they were.
SeatsTheTop(keys) ==
  LET r == updateSenators(state)
      seated == r.state.positionsOfPower.senators
      tally(n) == tallyOf(state.polls.senatorVotes, n)
      pos(n) == CHOOSE i \in 1..Len(keys) : keys[i] = n
      ahead(a, b) == tally(a) > tally(b) \/ (tally(a) = tally(b) /\ pos(a) < pos(b))
  IN /\ r.error = "none"
     /\ Len(seated) = (IF Len(keys) > 40 THEN 40 ELSE Len(keys))
     /\ Range(seated) \subseteq Range(keys)
     /\ \A i, j \in 1..Len(seated) : i < j => ahead(seated[i], seated[j])
     /\ \A n \in Range(keys) \ Range(seated) : \A i \in 1..Len(seated) : ahead(seated[i], n)
     /\ r.state.polls.senatorVotes = state.polls.senatorVotes

\* At most 40 senators, none twice, each a candidate with a tally.
SenateWellFormed ==
  LET senators == state.positionsOfPower.senators
  IN /\ Len(senators) <= 40
     /\ \A i, j \in 1..Len(senators) : i # j => senators[i] # senators[j]
     /\ Range(senators) \subseteq Range(InsertionOrder)

\* C23 as stated: updateSenators sets senators to the at most 40
\* candidates with the highest tallies in descending tally order, ties kept
\* in the insertion order of the tally mapping, and leaves senatorVotes
\* unchanged; so senators has at most 40 entries, no duplicates, and every
\* senator is a key of senatorVotes.
C23_TopFortyByInsertion == SeatsTheTop(InsertionOrder) /\ SenateWellFormed

\* C23, amended: the same, with ties kept in the order in which the tally
\* mapping enumerates its keys: keys that are array indices first, in
\* ascending numeric order, then the other keys in insertion order.
C23_TopFortyByEnumeration == SeatsTheTop(EnumerationOrder) /\ SenateWellFormed

\* Of 42 candidates with one vote each the one voted last, "7", has been
\* seated first, and the senate is full.
C23_Witness ==
  /\ Accepted("updateSenators")
  /\ Len(state.polls.senatorVotes) = 42
  /\ \A i \in 1..42 : state.polls.senatorVotes[i].votes = 1
  /\ state.polls.senatorVotes[42].name = "7"
  /\ Len(state.positionsOfPower.senators) = 40
  /\ state.positionsOfPower.senators[1] = "7"


\* What an executive order of `voter` is to do: the caller who is not the
\* president is refused; an order that is accepted adds its effects to
\* the statistics of the same name, none below 0, appends its tagged
\* description and stamps lastExecutiveOrderTime; one that is not accepted
\* was made within the window.
OrderRules ==
  \A voter \in Users, order \in OrderChoices :
    LET r == executiveOrder(state, now, voter, order)
    IN IF voter # state.positionsOfPower.president THEN r = Err(state, "PermissionError")
       ELSE IF r.error = "none"
       THEN r.state = [state EXCEPT
                         !.statistics = Applied(state.statistics, order.effects),
                         !.eventHistory = Append(state.eventHistory,
                                                 "[EXECUTIVE ORDER] " \o order.description),
                         !.lastExecutiveOrderTime = now,
                         !.version = state.version + 1]
       ELSE r = Err(state, "RateLimitError")

\* C24: an accepted executiveOrder adds each effect to the statistic of the
\* same name, clamped at 0, ignores keys that are none of the six
\* statistics, appends the description prefixed with "[EXECUTIVE ORDER] "
\* to eventHistory and sets lastExecutiveOrderTime to the current time; a
\* caller who is not the president gets PermissionError and no change.
C24_ExecutiveOrder ==
  /\ []OrderRules
  /\ [][ AcceptedStep("executiveOrder") =>
           /\ state'.lastExecutiveOrderTime = now
           /\ Len(state'.eventHistory) = Len(state.eventHistory) + 1
           /\ [state' EXCEPT !.statistics = state.statistics,
                             !.eventHistory = state.eventHistory,
                             !.lastExecutiveOrderTime = state.lastExecutiveOrderTime,
                             !.version = state.version] = state ]_vars

\* The order with a key that is no statistic has been accepted: welfare is
\* 0 and the state has no such key.
C24_Witness ==
  /\ Accepted("executiveOrder")
  /\ state.eventHistory[Len(state.eventHistory)] = "[EXECUTIVE ORDER] Decree"
  /\ state.statistics.welfare = 0
  /\ DOMAIN state.statistics = StatKeys
  /\ state.lastExecutiveOrderTime = now


----------------------------------------------------------------------------
(* Frame properties of the full engine.                                    *)

\* The step has replaced the state by the default state and the notice of
\* a coup or of a collapse.
FullReset ==
  /\ state'.eventHistory \in
       { <<"A coup has taken over! Government collapsed. Simulation restarting.">>,
         <<"Country collapsed! Restarting simulation.">> }
  /\ state'.laws = <<>>
  /\ state'.version = 1

IsPrefix(s, t) == Len(s) <= Len(t) /\ SubSeq(t, 1, Len(s)) = s

\* C25: eventHistory, lawHistory and laws are append-only: for every
\* accepted transition that is no full-state reset the previous
\* eventHistory and lawHistory are prefixes of the new ones and every law
\* present before is still present at the same position.
C25_AppendOnly ==
  [][ (budget' < budget /\ ~FullReset) =>
        /\ IsPrefix(state.eventHistory, state'.eventHistory)
        /\ IsPrefix(state.lawHistory, state'.lawHistory)
        /\ Len(state'.laws) >= Len(state.laws)
        /\ \A i \in 1..Len(state.laws) :
             /\ state'.laws[i].id = state.laws[i].id
             /\ state'.laws[i].text = state.laws[i].text
             /\ state'.laws[i].createdAt = state.laws[i].createdAt
             /\ DOMAIN state.laws[i].votes \subseteq DOMAIN state'.laws[i].votes ]_vars

\* A second law has been drafted after the first, at a later clock reading.
C25_Witness ==
  /\ Accepted("draftLaw")
  /\ Len(state.laws) = 2
  /\ state.laws[1].id < state.laws[2].id


\* The votes of the senate refuse whoever is not in senators as it now is;
\* voteOnLaw refuses a senator who names no law; a senator is refused for
\* no other reason than a ballot already cast.
SenatePermission ==
  \A voter \in SenateCallers, vote \in BOOLEAN :
    LET seated == \E i \in 1..Len(state.positionsOfPower.senators) :
                    state.positionsOfPower.senators[i] = voter
        impeach == voteToImpeach(state, voter, vote)
    IN /\ IF seated THEN impeach.error \in {"none", "DuplicateVoteError"}
          ELSE impeach = Err(state, "PermissionError")
       /\ \A lawId \in LawIds(state) :
            LET onLaw == voteOnLaw(state, voter, lawId, vote)
            IN IF ~seated THEN onLaw = Err(state, "PermissionError")
               ELSE IF \A i \in 1..Len(state.laws) : state.laws[i].id # lawId
               THEN onLaw = Err(state, "NotFoundError")
               ELSE onLaw.error \in {"none", "DuplicateVoteError"}

\* C26: voteOnLaw and voteToImpeach fail with PermissionError for every
\* caller who is not in the current senators list, so always while the
\* list is empty; voteOnLaw fails with NotFoundError when no law has the
\* id; the check is made against senators as it is at the call, so a
\* caller whom updateSenators has removed can no longer vote.
C26_SenatePermission == SenatePermission

\* updateSenators has seated "u41" and removed "u40", who has then been
\* refused a vote on the impeachment.
C26_Witness ==
  /\ Failed("voteToImpeach", "PermissionError")
  /\ Len(state.positionsOfPower.senators) = 40
  /\ "u41" \in Range(state.positionsOfPower.senators)
  /\ "u40" \notin Range(state.positionsOfPower.senators)


\* What a citizen action leaves alone when it is refused
Untouched(r) ==
  /\ r.error = "RateLimitError"
  /\ r.state.citizenActions = state.citizenActions
  /\ r.state.statistics.welfare = state.statistics.welfare

\* The time of the voter's last accepted action of the kind, 0 when the
\* state records none.
ActionTime(st, voter, kind) ==
  IF voter \in DOMAIN st.lastActionTimes THEN st.lastActionTimes[voter][kind] ELSE 0

\* A voter is refused a protest while less than the cooldown has passed
\* since the protest the state records for them, whatever the state records
\* of their coup and of the other voters, and is accepted otherwise; and
\* the same for joinCoup.
CooldownRules ==
  \A voter \in Users, amount \in CitizenAmounts :
    /\ IF now - ActionTime(state, voter, "protest") < cooldown
       THEN Untouched(protest(state, now, voter, amount))
       ELSE protest(state, now, voter, amount).error = "none"
    /\ IF now - ActionTime(state, voter, "coup") < cooldown
       THEN Untouched(joinCoup(state, now, voter, amount))
       ELSE joinCoup(state, now, voter, amount).error = "none"

\* The step has set the time of one voter's action of the kind to now,
\* so that the voter is refused the action from then on, and has changed
\* neither the voter's time of the other kind nor any time of another voter.
StartsCooldown(kind, other) ==
  \E voter \in Users :
    /\ ActionTime(state', voter, kind) = now
    /\ ActionTime(state', voter, other) = ActionTime(state, voter, other)
    /\ \A u \in Users \ {voter} :
         /\ ActionTime(state', u, kind) = ActionTime(state, u, kind)
         /\ ActionTime(state', u, other) = ActionTime(state, u, other)

\* C27 as stated: protest and joinCoup each enforce a cooldown of 5 minutes
\* per voter: after an accepted call a second call of the same kind by the
\* same voter less than 5 minutes later fails with RateLimitError and
\* leaves protestPercentage, coupPercentage and welfare unchanged; the two
\* cooldowns are independent, and the cooldown of one voter never blocks
\* another.
C27_ActionCooldown ==
  /\ []CooldownRules
  /\ [][ /\ AcceptedStep("protest") => StartsCooldown("protest", "coup")
         /\ AcceptedStep("joinCoup") => StartsCooldown("coup", "protest") ]_vars

\* C27, amended: the same, except that the joinCoup that takes the coup to
\* its threshold resets the game and with it every cooldown.
C27_ActionCooldownSinceReset ==
  /\ []CooldownRules
  /\ [][ /\ AcceptedStep("protest") => StartsCooldown("protest", "coup")
         /\ (AcceptedStep("joinCoup") /\ ~ResetStep) => StartsCooldown("coup", "protest") ]_vars

\* A voter who has just protested has been refused a second protest, while
\* their joinCoup and the protest of another voter would be accepted.
C27_Witness ==
  /\ Failed("protest", "RateLimitError")
  /\ \E voter \in Users :
       /\ ActionTime(state, voter, "protest") = now
       /\ ActionTime(state, voter, "coup") = 0
       /\ joinCoup(state, now, voter, 30).error = "none"
       /\ \E u \in Users \ {voter} : protest(state, now, u, 30).error = "none"


C29_SerialKeepsEffects ==
  [][ ( /\ job = <<>> /\ job' = <<>>
        /\ state \in {getDefaultState, Seated}
        /\ budget' < budget ) =>
        /\ IsPrefix(store.eventHistory, store'.eventHistory)
        /\ store'.version = store.version + 1 ]_vars


\* C30: every accepted transition that does not reset the state returns a
\* state whose version is the version it was given plus 1; every failed
\* transition leaves version unchanged, and writes nothing; every accepted
\* transition writes the state it returns to the gameState key once, so
\* that the record then equals the returned state.
C30_VersionAndWrite ==
  [][ /\ budget' < budget =>
           /\ store' = state'
           /\ ~FullReset => state'.version = state.version + 1
      /\ (budget' = budget /\ now' = now) =>
           /\ last'.error # "none"
           /\ state'.version = state.version
           /\ store' = store ]_vars

\* An accepted ballot on a law has been counted and written: the record is
\* the state returned, two versions after the start of the run.
C30_Witness ==
  /\ Accepted("voteOnLaw")
  /\ budget = 0
  /\ store = state
  /\ \E i \in 1..Len(store.laws) : DOMAIN store.laws[i].votes # {}


\* C33: impeachment ballots belong to one round: a president installed by
\* votePresident after an impeachment is removed only by affirmative
\* ballots cast after the installation, at least ceil(3/4 * |senators|) of
\* them; in particular a negative ballot never removes a president: the
\* ballot whose call takes the president from a name to null is an
\* affirmative one.
C33_ImpeachmentRound ==
  [][ ( /\ AcceptedStep("voteToImpeach")
        /\ state.positionsOfPower.president # Null
        /\ state'.positionsOfPower.president = Null ) =>
        /\ \A voter \in DOMAIN state'.polls.impeachmentVotes \ DOMAIN state.polls.impeachmentVotes :
             state'.polls.impeachmentVotes[voter] ]_vars

\* C34: whenever voteOnLaw moves a law to awaiting_president, at least
\* ceil(2/3 * |senators|) members of the current senators list hold an
\* affirmative ballot in the votes ledger of the law, also when
\* updateSenators has replaced senators between the ballots.
C34_MajorityOfCurrentSenate ==
  [][ AcceptedStep("voteOnLaw") =>
        \A i \in 1..Len(state.laws) :
          (state.laws[i].status # "awaiting_president"
             /\ state'.laws[i].status = "awaiting_president") =>
            LET votes == state'.laws[i].votes
                senators == state'.positionsOfPower.senators
                holders == {s \in Range(senators) : s \in DOMAIN votes /\ votes[s]}
            IN Cardinality(holders) >= Ceiling(2 * Len(senators), 3) ]_vars

\* C35: in every reachable state and for every law, votesFor is the number
\* of true entries of the votes ledger of the law and votesAgainst the
\* number of false entries, so that their sum is the number of senators
\* who have voted on the law.
C35_CountersMatchLedger ==
  \A i \in 1..Len(state.laws) :
    LET law == state.laws[i]
    IN /\ law.votesFor = Cardinality({v \in DOMAIN law.votes : law.votes[v]})
       /\ law.votesAgainst = Cardinality({v \in DOMAIN law.votes : ~law.votes[v]})
       /\ law.votesFor + law.votesAgainst = Cardinality(DOMAIN law.votes)

\* A law has ballots of both kinds, the last one just cast.
C35_Witness ==
  /\ Accepted("voteOnLaw")
  /\ \E i \in 1..Len(state.laws) :
       /\ state.laws[i].votesFor >= 2
       /\ state.laws[i].votesAgainst >= 1

\* C36: a law the president has passed is among the laws simulateEvent
\* consults for the relevance adjustment of a random event; a law that was
\* vetoed, or is pending or awaiting the president, is not.
C36_PassedLawsConsulted ==
  \A i \in 1..Len(state.laws) :
    LET consulted == \E j \in 1..Len(approvedLaws(state)) : approvedLaws(state)[j] = state.laws[i]
    IN /\ state.laws[i].status = "passed" => consulted
       /\ state.laws[i].status \in {"vetoed", "pending", "awaiting_president"} => ~consulted

\* The law as the legacy variant has it: "approved" for awaiting_president.
legacyStatus(law) ==
  IF law.status = "awaiting_president" THEN [law EXCEPT !.status = "approved"] ELSE law

\* The state with every law as the legacy variant has it
withLegacyStatus(st) ==
  [st EXCEPT !.laws = [i \in 1..Len(st.laws) |-> legacyStatus(st.laws[i])]]

\* The same, without the field the legacy state does not have
onLegacyFields(st) ==
  LET renamed == withLegacyStatus(st)
  IN [f \in (DOMAIN renamed) \ {"lastExecutiveOrderTime"} |-> renamed[f]]

\* The result of a call of the current variant, as the legacy variant
\* returns it under the correspondence F
Corresponds(legacy, current, F(_)) ==
  legacy = [state |-> F(current.state), error |-> current.error]

\* The variants in step under the correspondence F: their default states
\* correspond, and from the state of the current variant and the state of
\* the legacy variant that corresponds to it, every shared operation is
\* accepted or refused by both and leaves states that correspond.
InStep(F(_)) ==
  /\ legacyGetDefaultState = F(getDefaultState)
  /\ Corresponds(legacyUpdateSenators(F(state)), updateSenators(state), F)
  /\ \A lawText \in LawTexts :
       Corresponds(legacyDraftLaw(F(state), now, lawText), draftLaw(state, now, lawText), F)
  /\ \A voter \in Users :
       /\ \A lawId \in LawIds(state), vote \in BOOLEAN :
            Corresponds(legacyVoteOnLaw(F(state), voter, lawId, vote),
                        voteOnLaw(state, voter, lawId, vote), F)
       /\ \A vote \in BOOLEAN :
            Corresponds(legacyVoteToImpeach(F(state), voter, vote),
                        voteToImpeach(state, voter, vote), F)
       /\ \A candidate \in Users :
            /\ Corresponds(legacyVoteSenator(F(state), now, voter, candidate),
                           voteSenator(state, now, voter, candidate), F)
            /\ Corresponds(legacyVotePresident(F(state), now, voter, candidate),
                           votePresident(state, now, voter, candidate), F)
       /\ \A amount \in {30, 70} :
            /\ Corresponds(legacyProtest(F(state), now, voter, amount),
                           protest(state, now, voter, amount), F)
            /\ Corresponds(legacyJoinCoup(F(state), now, voter, amount),
                           joinCoup(state, now, voter, amount), F)

\* C37 as stated: the legacy and the current variant are the same state
\* machine on the operations they share: run side by side from the default
\* states on the same calls and clock readings they accept and refuse the
\* same calls and their states stay equal field for field, the legacy
\* status approved corresponding to awaiting_president.
C37_VariantsInStep == InStep(withLegacyStatus)

\* C37, amended: the same, the states being equal on every field of the
\* legacy state; the current state has lastExecutiveOrderTime in addition.
C37_VariantsInStepOnLegacyFields == InStep(onLegacyFields)

\* A ballot has given a law the majority of the senate: it is awaiting the
\* president in the current variant and approved in the legacy one.
C37_Witness ==
  /\ Accepted("voteOnLaw")
  /\ Len(state.laws) = 1
  /\ state.laws[1].status = "awaiting_president"
  /\ onLegacyFields(state).laws[1].status = "approved"
  /\ "lastExecutiveOrderTime" \notin DOMAIN onLegacyFields(state)

\* C32: the limit on executive orders is global, not per president:
\* between two resets any two accepted executiveOrder calls are at least 7
\* days apart, whoever is president at either call and however the
\* presidency changed hands in between; a full-state reset sets
\* lastExecutiveOrderTime back to 0, and with it at 0 the order of whoever
\* is president is accepted at once.
C32_OrderLimitGlobal ==
  /\ [](\A order \in OrderChoices :
          (state.lastExecutiveOrderTime = 0 /\ state.positionsOfPower.president # Null) =>
             executiveOrder(state, now, state.positionsOfPower.president, order).error = "none")
  /\ [][ /\ (AcceptedStep("executiveOrder") /\ lastOrderAt > 0
                /\ state.lastExecutiveOrderTime = lastOrderAt) =>
              now - lastOrderAt >= 7 * 24 * 3600
         /\ (budget' < budget /\ FullReset) => state'.lastExecutiveOrderTime = 0
         /\ (budget' < budget /\ last'.op \in {"votePresident", "voteToImpeach"}) =>
              state'.lastExecutiveOrderTime = state.lastExecutiveOrderTime ]_vars

\* bob issued an order, and later in the week voted ann president: ann's
\* order has been refused, the week of bob's order not being over.
C32_Witness ==
  /\ Failed("executiveOrder", "RateLimitError")
  /\ state.positionsOfPower.president = "ann"
  /\ state.lastExecutiveOrderTime > 0
  /\ "bob" \in DOMAIN state.votingRecords.president
  /\ state.votingRecords.president["bob"] > state.lastExecutiveOrderTime

-----------------------------------------------------------------------------
(* Properties of the moderation functions.                                 *)

\* C31: no statistic is ever negative, also under the administrative
\* operations: after any sequence of engine transitions and adjustGameState
\* calls, whatever the adjustments, each of the six statistics is at least
\* 0, in the state returned and in the record written.
C31_NonNegativeUnderAdjustment ==
  \A k \in StatKeys : state.statistics[k] >= 0 /\ store.statistics[k] >= 0


\* The entry of `voter` in a map of timers, or nothing
TimerOf(f, voter) == IF voter \in DOMAIN f THEN <<f[voter]>> ELSE <<>>

\* What manageDisruptiveBehavior makes of the state for each voter: the
\* voter has no timer left and each of their four actions is accepted at
\* once; the timers of every other voter, the tallies, the laws with their
\* ballots, the impeachment ballots, positionsOfPower and all the rest are
\* as before, and version is one more.
ClearsTheVoterAlone ==
  \A voter \in Users :
    LET r == manageDisruptiveBehavior(state, voter)
        cleared == r.state
    IN /\ r.error = "none"
       /\ voter \notin DOMAIN cleared.votingRecords.senator
       /\ voter \notin DOMAIN cleared.votingRecords.president
       /\ voter \notin DOMAIN cleared.lastActionTimes
       /\ \A candidate \in Users :
            /\ voteSenator(cleared, now, voter, candidate).error = "none"
            /\ votePresident(cleared, now, voter, candidate).error = "none"
       /\ protest(cleared, now, voter, 30).error = "none"
       /\ joinCoup(cleared, now, voter, 30).error = "none"
       /\ \A u \in Users \ {voter} :
            /\ TimerOf(cleared.votingRecords.senator, u) = TimerOf(state.votingRecords.senator, u)
            /\ TimerOf(cleared.votingRecords.president, u) = TimerOf(state.votingRecords.president, u)
            /\ TimerOf(cleared.lastActionTimes, u) = TimerOf(state.lastActionTimes, u)
       /\ cleared.version = state.version + 1
       /\ [cleared EXCEPT !.votingRecords = state.votingRecords,
                          !.lastActionTimes = state.lastActionTimes,
                          !.version = state.version] = state

\* C38: manageDisruptiveBehavior removes exactly the given voter's
\* senator-vote timestamp, president-vote timestamp and protest and coup
\* timestamps, so that the voter's next voteSenator, votePresident, protest
\* and joinCoup are accepted at once; it leaves every tally, every law
\* ballot, every impeachment ballot, positionsOfPower and the records of
\* every other voter unchanged, appends one entry to the audit log and
\* increments version.
C38_ClearsOneVoter ==
  /\ []ClearsTheVoterAlone
  /\ [][ AcceptedStep("manageDisruptiveBehavior") =>
           /\ Len(auditLogs') = Len(auditLogs) + 1
           /\ auditLogs'[1].action = "manageDisruptiveBehavior"
           /\ auditLogs'[1].timestamp = now
           /\ SubSeq(auditLogs', 2, Len(auditLogs')) = auditLogs
           /\ store' = state'
           /\ \E voter \in Users :
                state' = manageDisruptiveBehavior(state, voter).state ]_vars

\* ann, who voted herself senator at the start, has been cleared: her tally
\* stands, her timer is gone, bob's is kept, and her next vote would be
\* accepted at once.
C38_Witness ==
  /\ Accepted("manageDisruptiveBehavior")
  /\ auditLogs # <<>>
  /\ auditLogs[1].details.voter = "ann"
  /\ tallyOf(state.polls.senatorVotes, "ann") >= 1
  /\ "ann" \notin DOMAIN state.votingRecords.senator
  /\ "bob" \in DOMAIN state.votingRecords.senator
  /\ voteSenator(state, now, "ann", "ann").error = "none"


\* The president, if there is one, has been voted for.
PresidentHasTally ==
  LET president == state.positionsOfPower.president
  IN president # Null =>
       /\ president \in DOMAIN state.polls.presidentVotes
       /\ state.polls.presidentVotes[president] >= 1

\* C39: in every reachable state the president is null or a candidate whose
\* presidentVotes tally is at least 1, and the president becomes null only
\* through an impeachment ballot that reached the threshold or through a
\* full-state reset.
C39_PresidentElected ==
  /\ []PresidentHasTally
  /\ [][ (state.positionsOfPower.president # Null
            /\ state'.positionsOfPower.president = Null) =>
           \/ /\ AcceptedStep("voteToImpeach")
              /\ 4 * affirmativeBallots(state'.polls.impeachmentVotes)
                   >= 3 * Len(state.positionsOfPower.senators)
              /\ state'.eventHistory = Append(state.eventHistory, ImpeachmentNotice)
           \/ budget' < budget /\ FullReset ]_vars

\* The ballot of the only senator has removed bob, whom a vote had made
\* president: his tally is still there.
C39_Witness ==
  /\ Accepted("voteToImpeach")
  /\ state.positionsOfPower.president = Null
  /\ "bob" \in DOMAIN state.polls.presidentVotes
  /\ state.eventHistory # <<>>
  /\ state.eventHistory[Len(state.eventHistory)] = ImpeachmentNotice

====
